---- MODULE Spec2Model ----
(***************************************************************************)
(* Model of socketio_asyncapi.AsyncAPISocketIO: the facade that validates  *)
(* inbound event payloads, handler results and outbound emits against      *)
(* declared models and routes failures to a default exception handler.     *)
(*                                                                         *)
(* Python values are records [t, i, s, d]:                                 *)
(*   t  type tag: none, int, bool, float, str, dict, rec (a DummyModel     *)
(*      instance), absent (no such argument)                               *)
(*   i  number of an int or bool (False = 0, True = 1); tenths of a float  *)
(*   s  characters of a str, one per element                               *)
(*   d  items of a dict or fields of a record, in insertion order, each    *)
(*      <<key, value>>                                                     *)
(***************************************************************************)
EXTENDS Integers, Sequences, FiniteSets, TLC

VARIABLES validate, generate_docs, asyncapi_doc, emit_models,
          default_exception_handler, handlers, tasks, emits, call

vars == <<validate, generate_docs, asyncapi_doc, emit_models,
          default_exception_handler, handlers, tasks, emits, call>>

----------------------------------------------------------------------------
(* Python values *)

Mk(t, i, s, d) == [t |-> t, i |-> i, s |-> s, d |-> d]

NoneV == Mk("none", 0, <<>>, <<>>)

AbsentV == Mk("absent", 0, <<>>, <<>>)

IntV(n) == Mk("int", n, <<>>, <<>>)

BoolV(b) == Mk("bool", IF b THEN 1 ELSE 0, <<>>, <<>>)

FloatV(tenths) == Mk("float", tenths, <<>>, <<>>)

StrV(chars) == Mk("str", 0, chars, <<>>)

DictV(items) == Mk("dict", 0, <<>>, items)

RecV(fields) == Mk("rec", 0, <<>>, fields)

\* bool(x): Python truthiness, as used by `if request`, `if response`
\* and `if check_type(...)`
Truthy(v) ==
    CASE v.t \in {"int", "bool", "float"} -> v.i # 0
      [] v.t = "str" -> v.s # <<>>
      [] v.t = "dict" -> v.d # <<>>
      [] v.t = "rec" -> TRUE
      [] OTHER -> FALSE

\* BaseModel.dict(): the fields of a record instance as a plain dict
ToDict(v) == DictV(v.d)

\* isinstance(x, BaseModel)
IsRecord(v) == v.t = "rec"

----------------------------------------------------------------------------
(* Text of numbers *)

Digits == <<"0", "1", "2", "3", "4", "5", "6", "7", "8", "9">>

DigitChars == {Digits[k] : k \in 1..10}

DigitVal(c) == CHOOSE k \in 0..9 : Digits[k + 1] = c

RECURSIVE NatChars(_)
NatChars(n) == IF n < 10 THEN <<Digits[n + 1]>>
               ELSE NatChars(n \div 10) \o <<Digits[(n % 10) + 1]>>

RECURSIVE CharsNat(_)
CharsNat(cs) == IF cs = <<>> THEN 0
                ELSE CharsNat(SubSeq(cs, 1, Len(cs) - 1)) * 10 + DigitVal(cs[Len(cs)])

IsDigits(cs) == cs # <<>> /\ \A k \in 1..Len(cs) : cs[k] \in DigitChars

\* position of the decimal point of a float literal, 0 if there is none
DotAt(cs) == IF \E k \in 1..Len(cs) : cs[k] = "."
             THEN CHOOSE k \in 1..Len(cs) : cs[k] = "." ELSE 0

\* a literal float() accepts: digits, optionally followed by "." and one digit
IsFloatText(cs) ==
    \/ IsDigits(cs)
    \/ /\ DotAt(cs) > 1
       /\ Len(cs) = DotAt(cs) + 1
       /\ IsDigits(SubSeq(cs, 1, DotAt(cs) - 1))
       /\ cs[Len(cs)] \in DigitChars

FloatTextTenths(cs) ==
    IF DotAt(cs) = 0 THEN CharsNat(cs) * 10
    ELSE CharsNat(SubSeq(cs, 1, DotAt(cs) - 1)) * 10 + DigitVal(cs[Len(cs)])

RECURSIVE Repr(_), ReprItems(_), ReprFields(_, _)

\* repr(x) as characters; the key of a dict item or the name of a field is
\* kept as one element
Repr(v) ==
    CASE v.t = "none" -> <<"N", "o", "n", "e">>
      [] v.t = "int" -> NatChars(v.i)
      [] v.t = "bool" -> IF v.i = 1 THEN <<"T", "r", "u", "e">>
                         ELSE <<"F", "a", "l", "s", "e">>
      [] v.t = "float" -> NatChars(v.i \div 10) \o <<".">> \o NatChars(v.i % 10)
      [] v.t = "str" -> <<"'">> \o v.s \o <<"'">>
      [] v.t = "dict" -> <<"{">> \o ReprItems(v.d) \o <<"}">>
      [] OTHER -> <<"DummyModel", "(">> \o ReprFields(v.d, <<",", " ">>) \o <<")">>

\* 'key': value, ... of a dict
ReprItems(items) ==
    IF items = <<>> THEN <<>>
    ELSE LET one == <<"'", items[1][1], "'", ":", " ">> \o Repr(items[1][2])
         IN  IF Len(items) = 1 THEN one
             ELSE one \o <<",", " ">> \o ReprItems(Tail(items))

\* name=value of the fields of a record, joined by sep
ReprFields(items, sep) ==
    IF items = <<>> THEN <<>>
    ELSE LET one == <<items[1][1], "=">> \o Repr(items[1][2])
         IN  IF Len(items) = 1 THEN one
             ELSE one \o sep \o ReprFields(Tail(items), sep)

\* str(x): the text itself for a str, the fields for a record, the repr otherwise
PyStrChars(v) ==
    IF v.t = "str" THEN v.s
    ELSE IF v.t = "rec" THEN ReprFields(v.d, <<" ">>)
    ELSE Repr(v)

----------------------------------------------------------------------------
(* Exceptions and results of fallible calls *)

Exc(kind, event, model) == [kind |-> kind, event_name |-> event, model |-> model]

NoExc == Exc("none", "", "")

\* an exception that carries no event name or model
PlainExc(kind) == Exc(kind, "", "")

Ok(v) == [ok |-> TRUE, val |-> v, exc |-> NoExc]

Fail(e) == [ok |-> FALSE, val |-> NoneV, exc |-> e]

----------------------------------------------------------------------------
(* Model descriptors (PAYLOAD_TYPES, None and the NotProvided sentinel) *)

NoModel == "None"

NotProvided == "NotProvided"

RecordModel == "DummyModel"

GenericModel == "dict[str,str]"

ClassModels == {"int", "str", "bool", "float", "dict", RecordModel}

PayloadModels == ClassModels \cup {GenericModel}

\* isinstance(model, type): a parametrised generic such as dict[str, str]
\* is not a class
IsClass(m) == m \in ClassModels

\* issubclass(model, BaseModel); raises TypeError unless model is a class
IsSubclassOfBaseModel(m) ==
    IF IsClass(m) THEN Ok(BoolV(m = RecordModel)) ELSE Fail(PlainExc("TypeError"))

\* typeguard.check_type(value, model): TRUE iff no TypeCheckError is raised.
\* A parametrised dict is checked on its first item only (typeguard's default
\* collection check strategy); float accepts int; None accepts only None.
TypeMatches(v, m) ==
    CASE m = "int" -> v.t \in {"int", "bool"}
      [] m = "float" -> v.t \in {"float", "int", "bool"}
      [] m = "str" -> v.t = "str"
      [] m = "bool" -> v.t = "bool"
      [] m = "dict" -> v.t = "dict"
      [] m = GenericModel ->
            /\ v.t = "dict"
            /\ v.d # <<>> => v.d[1][2].t = "str"
      [] m = RecordModel -> v.t = "rec"
      [] m = NoModel -> v.t = "none"
      [] OTHER -> FALSE

\* model.__name__ ; raises AttributeError for None
HasName(m) == m # NoModel

----------------------------------------------------------------------------
(* Constructors of the builtin types: request_model(request) *)

PyInt(v) ==
    CASE v.t \in {"int", "bool"} -> Ok(IntV(v.i))
      [] v.t = "float" -> Ok(IntV(v.i \div 10))
      [] v.t = "str" -> IF IsDigits(v.s) THEN Ok(IntV(CharsNat(v.s)))
                        ELSE Fail(PlainExc("ValueError"))
      [] OTHER -> Fail(PlainExc("TypeError"))

PyFloat(v) ==
    CASE v.t \in {"int", "bool"} -> Ok(FloatV(v.i * 10))
      [] v.t = "float" -> Ok(v)
      [] v.t = "str" -> IF IsFloatText(v.s) THEN Ok(FloatV(FloatTextTenths(v.s)))
                        ELSE Fail(PlainExc("ValueError"))
      [] OTHER -> Fail(PlainExc("TypeError"))

PyStr(v) == Ok(StrV(PyStrChars(v)))

PyBool(v) == Ok(BoolV(Truthy(v)))

\* dict(x): a copy of a dict, the fields of a record, {} for an empty str;
\* the characters of a non-empty str are not key/value pairs (ValueError)
PyDict(v) ==
    CASE v.t \in {"dict", "rec"} -> Ok(DictV(v.d))
      [] v.t = "str" -> IF v.s = <<>> THEN Ok(DictV(<<>>))
                        ELSE Fail(PlainExc("ValueError"))
      [] OTHER -> Fail(PlainExc("TypeError"))

\* request_model(request) for a model that is not a BaseModel subclass; calling
\* a parametrised dict builds a plain dict
Construct(m, v) ==
    CASE m = "int" -> PyInt(v)
      [] m = "float" -> PyFloat(v)
      [] m = "str" -> PyStr(v)
      [] m = "bool" -> PyBool(v)
      [] OTHER -> PyDict(v)

----------------------------------------------------------------------------
(* pydantic validation of the record model
   class DummyModel(BaseModel): my_message: str; my_flag: bool *)

\* the value stored under a key of a dict, AbsentV if there is none
Lookup(items, key) ==
    IF \E k \in 1..Len(items) : items[k][1] = key
    THEN items[CHOOSE k \in 1..Len(items) : items[k][1] = key][2]
    ELSE AbsentV

\* str.lower() on the letters that occur
LowerChar(c) ==
    CASE c = "T" -> "t" [] c = "F" -> "f" [] c = "N" -> "n" [] c = "Y" -> "y"
      [] OTHER -> c

Lower(cs) == [k \in 1..Len(cs) |-> LowerChar(cs[k])]

BOOL_TRUE == {<<"1">>, <<"o", "n">>, <<"t">>, <<"t", "r", "u", "e">>, <<"y">>,
              <<"y", "e", "s">>}

BOOL_FALSE == {<<"0">>, <<"o", "f", "f">>, <<"f">>, <<"f", "a", "l", "s", "e">>,
               <<"n">>, <<"n", "o">>}

\* pydantic str_validator: a str is kept, a number becomes its text
StrValidator(v) ==
    CASE v.t = "str" -> Ok(v)
      [] v.t \in {"int", "float", "bool"} -> Ok(StrV(Repr(v)))
      [] OTHER -> Fail(PlainExc("StrError"))

\* pydantic bool_validator: True/False, 1/0 and the usual spellings
BoolValidator(v) ==
    CASE v.t = "bool" -> Ok(v)
      [] v.t = "int" /\ v.i \in {0, 1} -> Ok(BoolV(v.i = 1))
      [] v.t = "float" /\ v.i \in {0, 10} -> Ok(BoolV(v.i = 10))
      [] v.t = "str" /\ Lower(v.s) \in BOOL_TRUE -> Ok(BoolV(TRUE))
      [] v.t = "str" /\ Lower(v.s) \in BOOL_FALSE -> Ok(BoolV(FALSE))
      [] OTHER -> Fail(PlainExc("BoolError"))

\* DummyModel(**items): both fields required, extra keys ignored
ModelInit(items) ==
    LET m == StrValidator(Lookup(items, "my_message"))
        f == BoolValidator(Lookup(items, "my_flag"))
    IN  IF m.ok /\ f.ok
        THEN Ok(RecV(<<<<"my_message", m.val>>, <<"my_flag", f.val>>>>))
        ELSE Fail(PlainExc("ValidationError"))

\* BaseModel.validate(value): an instance is copied, a dict is used as keyword
\* arguments, anything else must convert with dict() or DictError is raised
ModelValidate(v) ==
    IF v.t = "rec" THEN Ok(v)
    ELSE IF v.t = "dict" THEN ModelInit(v.d)
    ELSE IF PyDict(v).ok THEN ModelInit(PyDict(v).val.d)
    ELSE Fail(PlainExc("DictError"))

\* BaseModel.parse_obj(obj): as validate, but a failing dict() is reported as
\* a ValidationError
ModelParseObj(v) ==
    IF v.t = "dict" THEN ModelInit(v.d)
    ELSE IF PyDict(v).ok THEN ModelInit(PyDict(v).val.d)
    ELSE Fail(PlainExc("ValidationError"))

----------------------------------------------------------------------------
(* Inputs *)

\* number of positional arguments that may follow the payload of an emit
MaxExtraArgs == 1

\* number of positional arguments that may precede the payload of an event
MaxLeadArgs == 1

\* number of handlers documented in one channel
MaxReceivers == 2

Events == {"ping", "pong"}

S_dsd == <<"d", "s", "d">>

S_42 == <<"4", "2">>

DOk == DictV(<<<<"my_message", StrV(S_dsd)>>, <<"my_flag", BoolV(TRUE)>>>>)

DBad == DictV(<<<<"my_message", StrV(S_dsd)>>, <<"my_not_flag", BoolV(TRUE)>>>>)

DCoerce == DictV(<<<<"my_message", IntV(42)>>, <<"my_flag", IntV(1)>>>>)

RecOk == RecV(DOk.d)

\* values that can arrive in a Socket.IO packet
DData == DictV(<<<<"data", StrV(S_dsd)>>>>)

WireValues == {NoneV, IntV(0), IntV(42), BoolV(FALSE), BoolV(TRUE), StrV(<<>>),
               StrV(S_dsd), StrV(S_42), FloatV(45), DictV(<<>>), DOk, DBad,
               DCoerce, DData}

\* values application code can pass to emit or return from a handler
Values == WireValues \cup {RecOk}

ExtraValues == {StrV(<<"x">>)}

RECURSIVE SeqsUpTo(_, _)
SeqsUpTo(S, n) ==
    IF n = 0 THEN {<<>>}
    ELSE LET shorter == SeqsUpTo(S, n - 1)
         IN  shorter \cup {Append(q, x) : q \in shorter, x \in S}

\* keyword arguments of emit, each <<name, value>>
EmitKwargs == {<<>>, <<<<"room", StrV(<<"r">>)>>>>}

\* positional arguments of emit: nothing, a payload, a payload and more
EmitArgs ==
    {<<>>} \cup {<<v>> : v \in Values}
    \cup {<<v>> \o q : v \in {IntV(42), StrV(S_dsd), RecOk},
                       q \in SeqsUpTo(ExtraValues, MaxExtraArgs)}

\* emit calls: every list of positional arguments, some with a keyword too
EmitCalls ==
    {[args |-> a, kwargs |-> <<>>] : a \in EmitArgs}
    \cup {[args |-> <<v>>, kwargs |-> k] : v \in {IntV(42), StrV(S_dsd), RecOk},
                                          k \in EmitKwargs}

\* the default exception handler is application code: it returns a value or
\* raises, either the exception it was given or one of its own
HookOutcomes ==
    {[raises |-> FALSE, reraise |-> FALSE, val |-> v] : v \in {NoneV, StrV(S_42), RecOk}}
    \cup {[raises |-> TRUE, reraise |-> r, val |-> NoneV] : r \in BOOLEAN}

Hooks == {"h1", "h2"}

NoHook == "None"

\* what on_error_default can be handed: coroutine functions, a plain function,
\* a value that is not callable
HookCandidates == Hooks \cup {"sync_function", "not_callable"}

Unset == "<unset>"

----------------------------------------------------------------------------
(* The specification document: AsyncAPIDoc *)

NoNamespace == "None"

Namespaces == {NoNamespace, "/ns1"}

ChannelIds == {"/", "/ns1"}

\* str.title() of the event names
Title(name) ==
    CASE name = "ping" -> "Ping"
      [] name = "pong" -> "Pong"
      [] OTHER -> name

MessageNames == Events \cup {Title(e) : e \in Events}

\* a payload or x-ack entry of a message: a reference to a schema, an inline
\* type, or None
NoSchema == [kind |-> "none", of |-> ""]

SchemaRef(name) == [kind |-> "$ref", of |-> name]

InlineType(type) == [kind |-> "type", of |-> type]

\* pydantic.schema.add_field_type_to_schema: the JSON type of a builtin class;
\* a parametrised generic matches no class and leaves the schema empty
FieldTypeSchema(model) ==
    CASE model = "str" -> InlineType("string")
      [] model = "bool" -> InlineType("boolean")
      [] model = "int" -> InlineType("integer")
      [] model = "float" -> InlineType("number")
      [] model = "dict" -> InlineType("object")
      [] OTHER -> NoSchema

\* add_new_receiver, lines 112-147 and add_new_sender, lines 184-200: the
\* entry that describes a model
SchemaOf(model) ==
    IF model = NotProvided THEN SchemaRef("NoSpec")
    ELSE IF model = RecordModel THEN SchemaRef(RecordModel)
    ELSE IF model # NoModel THEN FieldTypeSchema(model)
    ELSE NoSchema

\* ... and the schema a record model adds to components.schemas
SchemasWith(schemas, model) ==
    IF model = RecordModel THEN schemas \cup {RecordModel} ELSE schemas

RECURSIVE LStrip(_)
LStrip(cs) == IF cs # <<>> /\ cs[1] = " " THEN LStrip(Tail(cs)) ELSE cs

\* lines 157-161 and 210-214: a description gets a leading space if it has
\* none and is then dedented (descriptions here are single lines)
Described(description) ==
    IF description = <<>> THEN <<>>
    ELSE LStrip(IF description[1] # " " THEN <<" ">> \o description ELSE description)

NoMessage == [present |-> FALSE, name |-> "", description |-> <<>>,
              x_ack |-> NoSchema, payload |-> NoSchema]

NoChannel == [present |-> FALSE, publish |-> <<>>, subscribe |-> <<>>,
              x_handlers |-> FALSE]

\* a channel as _get_channel creates it
NewChannel == [NoChannel EXCEPT !.present = TRUE]

MessageRef(name) == <<"#/components/messages/", name>>

\* AsyncAPIDoc.default_init: the channel of the default namespace with the
\* disconnect handler, no messages, the NoSpec schema
DefaultDoc ==
    [channels |-> [c \in ChannelIds |->
                      IF c = "/" THEN [NewChannel EXCEPT !.x_handlers = TRUE]
                      ELSE NoChannel],
     messages |-> [n \in MessageNames |-> NoMessage],
     schemas |-> {"NoSpec"}]

ChannelId(namespace) == IF namespace \in {NoNamespace, ""} THEN "/" ELSE namespace

GetChannel_AlwaysNew(channels, namespace) ==
    [channels EXCEPT ![ChannelId(namespace)] = NewChannel]

\* AsyncAPIDoc._get_channel: the channels after the lookup, which creates the
\* channel of a namespace that has none
GetChannel(channels, namespace) ==
    IF ~channels[ChannelId(namespace)].present
    THEN [channels EXCEPT ![ChannelId(namespace)] = NewChannel]
    ELSE channels

\* AsyncAPIDoc.add_new_sender
AddNewSender(doc, namespace, event, payload_model, description) ==
    [channels |-> [GetChannel(doc.channels, namespace) EXCEPT
                      ![ChannelId(namespace)].subscribe = Append(@, MessageRef(event))],
     messages |-> [doc.messages EXCEPT ![event] =
                      [present |-> TRUE, name |-> event,
                       description |-> Described(description),
                       x_ack |-> NoSchema, payload |-> SchemaOf(payload_model)]],
     schemas |-> SchemasWith(doc.schemas, payload_model)]

AddNewReceiver_DefaultChannel(doc, handler_doc, namespace, name, ack_data_model, payload_model) ==
    [channels |-> [GetChannel(doc.channels, NoNamespace) EXCEPT
                      !["/"].publish = Append(@, MessageRef(Title(name)))],
     messages |-> [doc.messages EXCEPT ![Title(name)] =
                      [present |-> TRUE, name |-> name,
                       description |-> Described(handler_doc),
                       x_ack |-> SchemaOf(ack_data_model),
                       payload |-> SchemaOf(payload_model)]],
     schemas |-> SchemasWith(SchemasWith(doc.schemas, ack_data_model), payload_model)]

\* AsyncAPIDoc.add_new_receiver
AddNewReceiver(doc, handler_doc, namespace, name, ack_data_model, payload_model) ==
    [channels |-> [GetChannel(doc.channels, namespace) EXCEPT
                      ![ChannelId(namespace)].publish = Append(@, MessageRef(Title(name)))],
     messages |-> [doc.messages EXCEPT ![Title(name)] =
                      [present |-> TRUE, name |-> name,
                       description |-> Described(handler_doc),
                       x_ack |-> SchemaOf(ack_data_model),
                       payload |-> SchemaOf(payload_model)]],
     schemas |-> SchemasWith(SchemasWith(doc.schemas, ack_data_model), payload_model)]

\* keys in the order yaml.safe_dump writes them (sorted)
ChannelOrder == <<"/", "/ns1">>

MessageOrder == <<"Ping", "Pong", "ping", "pong">>

SchemaOrder == <<RecordModel, "NoSpec">>

\* the rendering of a oneOf list, one line per reference
RenderRefs(refs) ==
    IF refs = <<>> THEN <<<<"oneOf:", "[]">>>>
    ELSE <<<<"oneOf:">>>> \o [k \in 1..Len(refs) |-> <<"-", "$ref:">> \o refs[k]]

\* a key that holds None is left out (exclude_none)
RenderSchema(key, schema) ==
    IF schema.kind = "none" THEN <<>> ELSE <<<<key, schema.kind, schema.of>>>>

RenderChannel(id, channel) ==
    <<<<id>>, <<"publish:", "message:">>>> \o RenderRefs(channel.publish)
    \o <<<<"subscribe:", "message:">>>> \o RenderRefs(channel.subscribe)
    \o (IF channel.x_handlers THEN <<<<"x-handlers:", "disconnect:", "disconnect">>>>
        ELSE <<>>)

RenderMessage(key, message) ==
    <<<<key>>, <<"description:">> \o message.description, <<"name:", message.name>>>>
    \o RenderSchema("payload:", message.payload)
    \o RenderSchema("x-ack:", message.x_ack)

RECURSIVE RenderChannels(_, _)
RenderChannels(channels, order) ==
    IF order = <<>> THEN <<>>
    ELSE (IF channels[Head(order)].present
          THEN RenderChannel(Head(order), channels[Head(order)]) ELSE <<>>)
         \o RenderChannels(channels, Tail(order))

RECURSIVE RenderMessages(_, _)
RenderMessages(messages, order) ==
    IF order = <<>> THEN <<>>
    ELSE (IF messages[Head(order)].present
          THEN RenderMessage(Head(order), messages[Head(order)]) ELSE <<>>)
         \o RenderMessages(messages, Tail(order))

RECURSIVE RenderSchemas(_, _)
RenderSchemas(schemas, order) ==
    IF order = <<>> THEN <<>>
    ELSE (IF Head(order) \in schemas THEN <<<<Head(order)>>>> ELSE <<>>)
         \o RenderSchemas(schemas, Tail(order))

\* AsyncAPIDoc.get_yaml: the document as text, line by line
GetYaml(doc) ==
    <<<<"asyncapi:", "2.5.0">>, <<"channels:">>>>
    \o RenderChannels(doc.channels, ChannelOrder)
    \o <<<<"components:">>, <<"messages:">>>>
    \o RenderMessages(doc.messages, MessageOrder)
    \o <<<<"schemas:">>>>
    \o RenderSchemas(doc.schemas, SchemaOrder)
    \o <<<<"info:">>, <<"servers:">>>>

----------------------------------------------------------------------------
(* The facade: AsyncAPISocketIO *)

\* outcome of application code that has not run
NoOutcome == [raises |-> FALSE, reraise |-> FALSE, val |-> NoneV]

NoText == <<>>

\* what on() was given: the flag, the explicit models and the handler
NoOnInput == [typehint |-> FALSE, request_model |-> NoModel, response_model |-> NoModel,
              sig |-> [has_params |-> FALSE, last_ann |-> "missing",
                       return_ann |-> "missing", doc |-> <<>>]]

NoCall == [op |-> "none", event |-> "", model |-> "", namespace |-> "",
           known |-> FALSE, hook |-> "", outcome |-> "none", exc |-> NoExc,
           text |-> NoText, on_input |-> NoOnInput]

\* an emit call, from its call to its return: at "await_hook" it is suspended
\* at line 143, at "await_transport" at line 144
IdleEmit == [pc |-> "idle", event |-> "", args |-> <<>>, kwargs |-> <<>>,
             model |-> NoModel, hooked |-> <<>>,
             hook_out |-> NoOutcome, native |-> <<>>, outcome |-> "none",
             result |-> NoneV, exc |-> NoExc, cancelled |-> FALSE]

\* the exception a failing hook lets escape
HookRaised(ho, exc) == IF ho.reraise THEN exc ELSE PlainExc("HookError")

EmitCheck_NoTypeCheck(event, args, model) ==
    IF args = <<>> THEN [ok |-> FALSE, args |-> args, exc |-> PlainExc("IndexError")]
    ELSE IF ~Truthy(args[1]) THEN [ok |-> TRUE, args |-> args, exc |-> NoExc]
    ELSE IF ~IsSubclassOfBaseModel(model).ok
    THEN [ok |-> FALSE, args |-> args, exc |-> IsSubclassOfBaseModel(model).exc]
    ELSE IF Truthy(IsSubclassOfBaseModel(model).val) /\ IsRecord(args[1])
    THEN [ok |-> TRUE, args |-> <<ToDict(args[1])>> \o Tail(args), exc |-> NoExc]
    ELSE [ok |-> TRUE, args |-> args, exc |-> NoExc]

\* emit, lines 124-138: the checks made on the positional arguments.
\* check_type returns the value it was given, so the conversion of a record
\* is attempted for a truthy payload only.
EmitCheck(event, args, model) ==
    IF args = <<>> THEN [ok |-> FALSE, args |-> args, exc |-> PlainExc("IndexError")]
    ELSE IF ~TypeMatches(args[1], model)
    THEN [ok |-> FALSE, args |-> args, exc |-> Exc("EmitValidationError", event, model)]
    ELSE IF ~Truthy(args[1]) THEN [ok |-> TRUE, args |-> args, exc |-> NoExc]
    ELSE IF ~IsSubclassOfBaseModel(model).ok
    THEN [ok |-> FALSE, args |-> args, exc |-> IsSubclassOfBaseModel(model).exc]
    ELSE IF Truthy(IsSubclassOfBaseModel(model).val)
    THEN [ok |-> TRUE, args |-> <<ToDict(args[1])>> \o Tail(args), exc |-> NoExc]
    ELSE [ok |-> TRUE, args |-> args, exc |-> NoExc]

\* self.emit_models.get(event)
EmitModelOf(models, event) == IF models[event] = Unset THEN NoModel ELSE models[event]

EmitIsChecked_IgnoresFlag(model) == model # NoModel

\* lines 121-123: a payload is checked only when validation is on and the
\* event has a model
EmitIsChecked(model) == validate /\ model # NoModel

\* lines 139-143: the catch-all of emit; without a hook the exception is raised
\* again, else the hook is called with it and awaited
EmitFailed(em, exc) ==
    LET err_handler == default_exception_handler
    IN  IF err_handler = NoHook
        THEN [em EXCEPT !.pc = "done", !.outcome = "raise", !.exc = exc]
        ELSE [em EXCEPT !.pc = "await_hook",
                        !.hooked = <<[hook |-> err_handler, exc |-> exc]>>]

\* line 144: the transport's emit is called with the arguments and awaited
EmitDelegated(em, a) ==
    [em EXCEPT !.pc = "await_transport",
               !.native = <<[event |-> em.event, args |-> a, kwargs |-> em.kwargs]>>]

\* AsyncAPISocketIO.emit from its call to its first await (or to the raise of
\* line 142)
EmitEnter(event, args, kwargs) ==
    LET model == EmitModelOf(emit_models, event)
        em == [IdleEmit EXCEPT !.event = event, !.args = args, !.kwargs = kwargs,
                               !.model = model]
    IN  IF ~EmitIsChecked(model) THEN EmitDelegated(em, args)
        ELSE IF EmitCheck(event, args, model).ok
        THEN EmitDelegated(em, EmitCheck(event, args, model).args)
        ELSE EmitFailed(em, EmitCheck(event, args, model).exc)

Emit_RegistersEvent(e, event, args, kwargs) ==
    /\ emits[e].pc \in {"idle", "done"}
    /\ emits' = [emits EXCEPT ![e] = EmitEnter(event, args, kwargs)]
    /\ emit_models' = [emit_models EXCEPT ![event] = EmitModelOf(emit_models, event)]
    /\ UNCHANGED <<validate, generate_docs, asyncapi_doc, default_exception_handler, handlers, tasks, call>>

\* a call of emit; e is the place of the call among those in flight, free
\* again once the call before has ended
Emit(e, event, args, kwargs) ==
    /\ emits[e].pc \in {"idle", "done"}
    /\ emits' = [emits EXCEPT ![e] = EmitEnter(event, args, kwargs)]
    /\ UNCHANGED <<validate, generate_docs, asyncapi_doc, emit_models, default_exception_handler, handlers, tasks, call>>

EmitHookResumed_DropsResult(em, ho) ==
    IF ho.raises
    THEN [em EXCEPT !.pc = "done", !.hook_out = ho, !.outcome = "raise",
                    !.exc = HookRaised(ho, em.hooked[1].exc)]
    ELSE [em EXCEPT !.pc = "done", !.hook_out = ho, !.outcome = "return",
                    !.result = NoneV]

EmitHookResumed_SwallowsHookError(em, ho) ==
    IF ho.raises
    THEN [em EXCEPT !.pc = "done", !.hook_out = ho, !.outcome = "return",
                    !.result = NoneV]
    ELSE [em EXCEPT !.pc = "done", !.hook_out = ho, !.outcome = "return",
                    !.result = ho.val]

\* line 143, `return await err_handler(exc)`: what the hook returns is the
\* result of emit, what it raises leaves emit
EmitHookResumed(em, ho) ==
    IF ho.raises
    THEN [em EXCEPT !.pc = "done", !.hook_out = ho, !.outcome = "raise",
                    !.exc = HookRaised(ho, em.hooked[1].exc)]
    ELSE [em EXCEPT !.pc = "done", !.hook_out = ho, !.outcome = "return",
                    !.result = ho.val]

EmitHookDone(e, ho) ==
    /\ emits[e].pc = "await_hook"
    /\ emits' = [emits EXCEPT ![e] = EmitHookResumed(emits[e], ho)]
    /\ UNCHANGED <<validate, generate_docs, asyncapi_doc, emit_models, default_exception_handler, handlers, tasks, call>>

\* line 144, `return await super().emit(...)`: the transport's emit returns None
EmitTransportDone(e) ==
    /\ emits[e].pc = "await_transport"
    /\ emits' = [emits EXCEPT ![e] = [@ EXCEPT !.pc = "done", !.outcome = "return",
                                               !.result = NoneV]]
    /\ UNCHANGED <<validate, generate_docs, asyncapi_doc, emit_models, default_exception_handler, handlers, tasks, call>>

\* asyncio.CancelledError derives from BaseException, every other kind of
\* exception met here from Exception
IsException(exc) == exc.kind # "CancelledError"

\* an emit is cancelled while it is suspended: CancelledError is raised at its
\* await, the hook (line 143) or the transport's emit (line 144); neither await
\* is inside the try of lines 124-139
EmitCancelled(e) ==
    /\ emits[e].pc \in {"await_hook", "await_transport"}
    /\ emits' = [emits EXCEPT ![e] = [@ EXCEPT !.pc = "done", !.cancelled = TRUE,
                                               !.outcome = "raise",
                                               !.exc = PlainExc("CancelledError")]]
    /\ UNCHANGED <<validate, generate_docs, asyncapi_doc, emit_models, default_exception_handler, handlers, tasks, call>>

DocEmit_AlwaysDocuments(event, model, namespace, discription) ==
    LET base == [NoCall EXCEPT !.op = "doc_emit", !.event = event, !.model = model,
                               !.namespace = namespace,
                               !.known = emit_models[event] # Unset]
    IN  IF emit_models[event] # Unset /\ emit_models[event] # model
        THEN /\ call' = [base EXCEPT !.outcome = "raise", !.exc = PlainExc("ValueError")]
             /\ UNCHANGED <<validate, generate_docs, asyncapi_doc, emit_models,
                            default_exception_handler, handlers, tasks, emits>>
        ELSE /\ emit_models' = [emit_models EXCEPT ![event] = model]
             /\ asyncapi_doc' = AddNewSender(asyncapi_doc, namespace, event, model,
                                             discription)
             /\ call' = [base EXCEPT !.outcome = "return"]
             /\ UNCHANGED <<validate, generate_docs, default_exception_handler,
                            handlers, tasks, emits>>

\* doc_emit(event, model, namespace, discription)(func): a second declaration
\* of an event is accepted only with the model it already has; the message of
\* the ValueError names the new model, which fails for None
DocEmit(event, model, namespace, discription) ==
    LET base == [NoCall EXCEPT !.op = "doc_emit", !.event = event, !.model = model,
                               !.namespace = namespace,
                               !.known = emit_models[event] # Unset]
    IN  IF emit_models[event] # Unset
        THEN /\ call' = (IF emit_models[event] = model
                         THEN [base EXCEPT !.outcome = "return"]
                         ELSE IF HasName(model)
                         THEN [base EXCEPT !.outcome = "raise", !.exc = PlainExc("ValueError")]
                         ELSE [base EXCEPT !.outcome = "raise",
                                           !.exc = PlainExc("AttributeError")])
             /\ UNCHANGED <<validate, generate_docs, asyncapi_doc, emit_models,
                            default_exception_handler, handlers, tasks, emits>>
        ELSE /\ emit_models' = [emit_models EXCEPT ![event] = model]
             /\ asyncapi_doc' = AddNewSender(asyncapi_doc, namespace, event, model,
                                             discription)
             /\ call' = [base EXCEPT !.outcome = "return"]
             /\ UNCHANGED <<validate, generate_docs, default_exception_handler,
                            handlers, tasks, emits>>

\* asyncapi_doc.get_yaml() as the application calls it
GetYamlCall ==
    /\ call' = [NoCall EXCEPT !.op = "get_yaml", !.outcome = "return",
                              !.text = GetYaml(asyncapi_doc)]
    /\ UNCHANGED <<validate, generate_docs, asyncapi_doc, emit_models,
                   default_exception_handler, handlers, tasks, emits>>

IsCoroutineFunction_CallableOnly(h) == h \in Hooks \cup {"sync_function"}

\* callable(h) and asyncio.iscoroutinefunction(h)
IsCoroutineFunction(h) == h \in Hooks

OnErrorDefault(h) ==
    LET base == [NoCall EXCEPT !.op = "on_error_default", !.hook = h]
    IN  IF ~IsCoroutineFunction(h)
        THEN /\ call' = [base EXCEPT !.outcome = "raise", !.exc = PlainExc("ValueError")]
             /\ UNCHANGED <<validate, generate_docs, asyncapi_doc, emit_models, default_exception_handler, handlers, tasks, emits>>
        ELSE /\ default_exception_handler' = h
             /\ call' = [base EXCEPT !.outcome = "return"]
             /\ UNCHANGED <<validate, generate_docs, asyncapi_doc, emit_models, handlers, tasks, emits>>

NoHandler == [registered |-> FALSE, request_model |-> NoModel, response_model |-> NoModel]

\* descriptions: docstrings of handlers and the discription of doc_emit
Descriptions == {<<>>, <<"d">>, <<" ", "d">>}

\* the signature of a handler as on() inspects it: whether it has positional
\* parameters, the annotation of the last one and the return annotation
\* ("missing" when there is none), and its docstring
Signatures ==
    [has_params : BOOLEAN, last_ann : PayloadModels \cup {"missing"},
     return_ann : PayloadModels \cup {NoModel, "missing"}, doc : Descriptions]

ResolveRequestModel_TypehintWins(get_from_typehint, request_model, sig) ==
    LET posible_request_model ==
            IF ~sig.has_params THEN NoModel
            ELSE IF sig.last_ann = "missing" THEN NotProvided ELSE sig.last_ann
    IN  IF get_from_typehint THEN posible_request_model ELSE request_model

\* on(), lines 194-207: fill the models that were not given from the type hints
ResolveRequestModel(get_from_typehint, request_model, sig) ==
    LET posible_request_model ==
            IF ~sig.has_params THEN NoModel
            ELSE IF sig.last_ann = "missing" THEN NotProvided ELSE sig.last_ann
    IN  IF get_from_typehint /\ request_model = NoModel THEN posible_request_model
        ELSE request_model

ResolveResponseModel(get_from_typehint, response_model, sig) ==
    LET posible_response_model ==
            IF sig.return_ann = "missing" THEN NotProvided ELSE sig.return_ann
    IN  IF get_from_typehint /\ response_model = NoModel THEN posible_response_model
        ELSE response_model

\* on(message, namespace, get_from_typehint=, response_model=, request_model=)
\* (handler): documents the handler with the resolved models and registers its
\* wrapper with the transport, which keeps one handler per namespace and event
\* (no namespace meaning "/")
On(message, namespace, get_from_typehint, response_model, request_model, sig) ==
    LET resolved_request == ResolveRequestModel(get_from_typehint, request_model, sig)
        resolved_response == ResolveResponseModel(get_from_typehint, response_model, sig)
    IN  /\ generate_docs =>
              Len(asyncapi_doc.channels[ChannelId(namespace)].publish) < MaxReceivers
        /\ asyncapi_doc' =
              (IF generate_docs
               THEN AddNewReceiver(asyncapi_doc, sig.doc, namespace, message,
                                   resolved_response, resolved_request)
               ELSE asyncapi_doc)
        /\ handlers' = [handlers EXCEPT ![<<ChannelId(namespace), message>>] =
              [registered |-> TRUE, request_model |-> resolved_request,
               response_model |-> resolved_response]]
        /\ call' = [NoCall EXCEPT !.op = "on", !.event = message,
                                  !.namespace = namespace, !.outcome = "return",
                                  !.on_input = [typehint |-> get_from_typehint,
                                                request_model |-> request_model,
                                                response_model |-> response_model,
                                                sig |-> sig]]
        /\ UNCHANGED <<validate, generate_docs, emit_models,
                       default_exception_handler, tasks, emits>>

----------------------------------------------------------------------------
(* The wrapped handler: _handle_all(...)(handler), one task per invocation *)

IdleTask == [pc |-> "idle", namespace |-> "", event |-> "", request_model |-> NoModel,
             response_model |-> NoModel, args |-> <<>>, kwargs |-> AbsentV,
             call_args |-> <<>>, call_kwargs |-> AbsentV, handler_calls |-> 0,
             handler_out |-> NoOutcome, handler_returned |-> FALSE,
             hook_at_entry |-> NoHook, hook_at_resume |-> NoHook, hooked |-> <<>>,
             hook_out |-> NoOutcome, outcome |-> "none", result |-> NoneV,
             exc |-> NoExc, cancelled |-> FALSE]

\* lines 294-299: the request is the last positional argument after the sid
\* if that is truthy, else kwargs.get("request")
RequestCameAsArg(args) == Len(args) > 1 /\ Truthy(args[Len(args)])

RequestOf(args, kwargs) ==
    IF RequestCameAsArg(args) THEN args[Len(args)]
    ELSE IF kwargs = AbsentV THEN NoneV ELSE kwargs

RequestIsValidated_IgnoresFlag(request, request_model) ==
    Truthy(request) /\ request_model # NoModel /\ request_model # NotProvided

\* line 303: whether the request is validated at all
RequestIsValidated(request, request_model) ==
    Truthy(request) /\ validate /\ request_model # NoModel /\ request_model # NotProvided

\* lines 304-323: coerce the request to the model
Coerce(message, request_model, request) ==
    IF ~IsSubclassOfBaseModel(request_model).ok
    THEN Fail(IsSubclassOfBaseModel(request_model).exc)
    ELSE IF Truthy(IsSubclassOfBaseModel(request_model).val)
    THEN IF ~ModelValidate(request).ok
         THEN Fail(Exc("RequestValidationError", message, request_model))
         ELSE ModelParseObj(request)
    ELSE IF Construct(request_model, request).ok THEN Construct(request_model, request)
    ELSE IF Construct(request_model, request).exc.kind = "ValueError"
    THEN Fail(Exc("RequestValidationError", message, request_model))
    ELSE Fail(Construct(request_model, request).exc)

\* lines 325-328: where the coerced request is put
ArgsWith(args, request) ==
    IF RequestCameAsArg(args) THEN <<args[1], request>> \o SubSeq(args, 3, Len(args))
    ELSE args

KwargsWith(args, kwargs, request) ==
    IF RequestCameAsArg(args) THEN kwargs ELSE request

ResponseCheck_Skipped(message, response_model, response) == NoExc

\* lines 333-339: the check of the handler's result; the exception raised, if any
ResponseCheck(message, response_model, response) ==
    IF Truthy(response) /\ validate /\ response_model # NotProvided
       /\ ~TypeMatches(response, response_model)
    THEN IF HasName(response_model)
         THEN Exc("ResponseValidationError", message, response_model)
         ELSE PlainExc("AttributeError")
    ELSE NoExc

Returned_KeepsRecord(task, response) ==
    [task EXCEPT !.pc = "done", !.outcome = "return", !.result = response]

\* lines 349-352: a record instance is returned as a dict
Returned(task, response) ==
    [task EXCEPT !.pc = "done", !.outcome = "return",
                 !.result = IF IsRecord(response) THEN ToDict(response) ELSE response]

Caught_UsesHookAtEntry(task, exc) ==
    LET err_handler == task.hook_at_entry
    IN  IF err_handler = NoHook
        THEN [task EXCEPT !.pc = "done", !.outcome = "return", !.result = NoneV]
        ELSE [task EXCEPT !.pc = "await_hook",
                          !.hooked = Append(@, [hook |-> err_handler, exc |-> exc])]

Caught_NeverHooks(task, exc) ==
    [task EXCEPT !.pc = "done", !.outcome = "return", !.result = NoneV]

\* lines 341-347: the catch-all; without a hook nothing is returned, else the
\* hook is awaited with the exception
Caught(task, exc) ==
    LET err_handler == default_exception_handler
    IN  IF err_handler = NoHook
        THEN [task EXCEPT !.pc = "done", !.outcome = "return", !.result = NoneV]
        ELSE [task EXCEPT !.pc = "await_hook",
                          !.hooked = Append(@, [hook |-> err_handler, exc |-> exc])]

\* the transport calls the wrapper registered for the event of a namespace with
\* (sid, *data); up to the await of the user handler, or of the hook when the
\* request does not validate
WrapperEnter(namespace, message, args, kwargs) ==
    LET h == handlers[<<namespace, message>>]
        request == RequestOf(args, kwargs)
        task == [IdleTask EXCEPT !.namespace = namespace, !.event = message,
                                 !.request_model = h.request_model,
                                 !.response_model = h.response_model, !.args = args,
                                 !.kwargs = kwargs,
                                 !.hook_at_entry = default_exception_handler]
        called(a, k) == [task EXCEPT !.pc = "await_handler", !.call_args = a,
                                     !.call_kwargs = k, !.handler_calls = @ + 1]
    IN  IF ~RequestIsValidated(request, h.request_model) THEN called(args, kwargs)
        ELSE IF Coerce(message, h.request_model, request).ok
        THEN called(ArgsWith(args, Coerce(message, h.request_model, request).val),
                    KwargsWith(args, kwargs, Coerce(message, h.request_model, request).val))
        ELSE Caught(task, Coerce(message, h.request_model, request).exc)

\* t is the place of the invocation among those in flight, free again once the
\* invocation before has ended
WrapperStart(t, namespace, message, args, kwargs) ==
    /\ tasks[t].pc \in {"idle", "done"}
    /\ handlers[<<namespace, message>>].registered
    /\ tasks' = [tasks EXCEPT ![t] = WrapperEnter(namespace, message, args, kwargs)]
    /\ UNCHANGED <<validate, generate_docs, asyncapi_doc, emit_models, default_exception_handler, handlers, call, emits>>

\* the user handler, when it returns or raises
HandlerResumed(task, out) ==
    LET seen == [task EXCEPT !.handler_out = out, !.handler_returned = ~out.raises,
                             !.hook_at_resume = default_exception_handler]
    IN  IF out.raises THEN Caught(seen, PlainExc("HandlerError"))
        ELSE IF ResponseCheck(task.event, task.response_model, out.val) # NoExc
        THEN Caught(seen, ResponseCheck(task.event, task.response_model, out.val))
        ELSE Returned(seen, out.val)

HandlerDone(t, out) ==
    /\ tasks[t].pc = "await_handler"
    /\ tasks' = [tasks EXCEPT ![t] = HandlerResumed(tasks[t], out)]
    /\ UNCHANGED <<validate, generate_docs, asyncapi_doc, emit_models, default_exception_handler, handlers, call, emits>>

HookResumed_SwallowsHookError(task, out) ==
    IF out.raises
    THEN [task EXCEPT !.pc = "done", !.hook_out = out, !.outcome = "return",
                      !.result = NoneV]
    ELSE Returned([task EXCEPT !.hook_out = out], out.val)

\* the hook, when it returns or raises: its exception leaves the wrapper
HookResumed(task, out) ==
    IF out.raises
    THEN [task EXCEPT !.pc = "done", !.hook_out = out, !.outcome = "raise",
                      !.exc = HookRaised(out, task.hooked[Len(task.hooked)].exc)]
    ELSE Returned([task EXCEPT !.hook_out = out], out.val)

HookDone(t, out) ==
    /\ tasks[t].pc = "await_hook"
    /\ tasks' = [tasks EXCEPT ![t] = HookResumed(tasks[t], out)]
    /\ UNCHANGED <<validate, generate_docs, asyncapi_doc, emit_models, default_exception_handler, handlers, call, emits>>

\* line 341, `except Exception`: what is not an Exception leaves the wrapper
Raised(task, exc) ==
    IF IsException(exc) THEN Caught(task, exc)
    ELSE [task EXCEPT !.pc = "done", !.outcome = "raise", !.exc = exc]

\* the invocation is cancelled while it is suspended: CancelledError is raised
\* at the await.  At the await of the user handler (line 331) that is inside
\* the try; at the await of the hook (line 347) it is inside the except clause
\* and outside any try, so it leaves the wrapper
HandlerCancelled(t) ==
    /\ tasks[t].pc \in {"await_handler", "await_hook"}
    /\ tasks' = [tasks EXCEPT ![t] =
          IF tasks[t].pc = "await_handler"
          THEN Raised([tasks[t] EXCEPT !.cancelled = TRUE,
                                       !.hook_at_resume = default_exception_handler],
                      PlainExc("CancelledError"))
          ELSE [tasks[t] EXCEPT !.pc = "done", !.cancelled = TRUE,
                                !.outcome = "raise",
                                !.exc = PlainExc("CancelledError")]]
    /\ UNCHANGED <<validate, generate_docs, asyncapi_doc, emit_models, default_exception_handler, handlers, call, emits>>

----------------------------------------------------------------------------
(* Specifications *)

\* __init__: validation as the application chose it, nothing registered
InitFacade ==
    /\ validate \in BOOLEAN
    /\ generate_docs = TRUE
    /\ asyncapi_doc = DefaultDoc
    /\ emit_models = [e \in Events |-> Unset]
    /\ default_exception_handler = NoHook
    /\ handlers = [k \in ChannelIds \X Events |-> NoHandler]
    /\ call = NoCall

\* one invocation and one emit call in flight at a time
Init ==
    /\ InitFacade
    /\ tasks = [t \in {1} |-> IdleTask]
    /\ emits = [e \in {1} |-> IdleEmit]

\* emit calls for an event that is never declared
UndeclaredEmitCalls ==
    {c \in EmitCalls : c.args \in {<<>>, <<StrV(S_dsd)>>, <<RecOk>>}}

\* declarations of "pong" ("ping" is never declared), installations of hooks,
\* and emit calls up to their return
NextEmit ==
    \/ \E m \in PayloadModels \cup {NoModel} : DocEmit("pong", m, NoNamespace, <<>>)
    \/ \E h \in HookCandidates : OnErrorDefault(h)
    \/ \E e \in DOMAIN emits, c \in EmitCalls : Emit(e, "pong", c.args, c.kwargs)
    \/ \E e \in DOMAIN emits, c \in UndeclaredEmitCalls :
          Emit(e, "ping", c.args, c.kwargs)
    \/ \E e \in DOMAIN emits, ho \in HookOutcomes : EmitHookDone(e, ho)
    \/ \E e \in DOMAIN emits : EmitTransportDone(e)

SpecEmit == Init /\ [][NextEmit]_vars

Sids == {"sid1"}

LeadValues == {StrV(<<"x">>)}

\* positional arguments of an inbound event: the sid, then the data, for some
\* data after other arguments
WrapperArgs ==
    {<<StrV(<<sid>>)>> : sid \in Sids}
    \cup {<<StrV(<<sid>>), v>> : sid \in Sids, v \in WireValues}
    \cup {<<StrV(<<sid>>)>> \o q \o <<v>> :
             sid \in Sids, q \in SeqsUpTo(LeadValues, MaxLeadArgs),
             v \in {IntV(0), IntV(42), DOk}}

\* the keyword argument `request` of a direct call of the wrapper
WrapperKwargs == {AbsentV, StrV(S_42)}

\* calls of the wrapper: every list of positional arguments, some with the
\* keyword argument too
WrapperCalls ==
    {[args |-> a, kwargs |-> AbsentV] : a \in WrapperArgs}
    \cup {[args |-> a, kwargs |-> k] :
             a \in {<<StrV(<<sid>>)>> : sid \in Sids}
                   \cup {<<StrV(<<sid>>), v>> : sid \in Sids, v \in {IntV(0), IntV(42)}},
             k \in WrapperKwargs}

HandlerOutcomes ==
    {[raises |-> FALSE, reraise |-> FALSE, val |-> v] :
        v \in {NoneV, IntV(0), IntV(42), StrV(<<>>), StrV(S_dsd), DictV(<<>>), DOk, RecOk}}
    \cup {[raises |-> TRUE, reraise |-> FALSE, val |-> NoneV]}

\* the request and response models the registered handlers have: every model
\* on one side with none on the other, and the same model on both
ModelPairs ==
    {<<rq, rs>> : rq \in PayloadModels \cup {NoModel, NotProvided}, rs \in {NoModel, NotProvided}}
    \cup {<<rq, rs>> : rq \in {NoModel, NotProvided}, rs \in PayloadModels \cup {NoModel, NotProvided}}
    \cup {<<m, m>> : m \in PayloadModels}

\* each pair given to on() explicitly, and declared by the handler's type hints,
\* and explicit models next to type hints that say otherwise
OnInputs ==
    {[typehint |-> FALSE, request_model |-> p[1], response_model |-> p[2],
      sig |-> [has_params |-> TRUE, last_ann |-> "missing", return_ann |-> "missing",
               doc |-> <<>>]] :
        p \in ModelPairs}
    \cup {[typehint |-> TRUE, request_model |-> NoModel, response_model |-> NoModel,
           sig |-> [has_params |-> p[1] # NoModel,
                    last_ann |-> IF p[1] \in PayloadModels THEN p[1] ELSE "missing",
                    return_ann |-> IF p[2] = NotProvided THEN "missing" ELSE p[2],
                    doc |-> <<>>]] :
             p \in ModelPairs}
    \cup {[typehint |-> TRUE, request_model |-> "str", response_model |-> "str",
           sig |-> [has_params |-> TRUE, last_ann |-> "int", return_ann |-> RecordModel,
                    doc |-> <<>>]],
          [typehint |-> TRUE, request_model |-> "int", response_model |-> NoModel,
           sig |-> [has_params |-> TRUE, last_ann |-> "str", return_ann |-> "missing",
                    doc |-> <<>>]],
          [typehint |-> TRUE, request_model |-> NoModel, response_model |-> "int",
           sig |-> [has_params |-> TRUE, last_ann |-> "missing", return_ann |-> "str",
                    doc |-> <<>>]]}

\* the handlers whose wrappers are invoked: explicit models, every model on
\* one side with nothing given on the other, and the same model on both
HandlerOnInputs ==
    {i \in OnInputs :
        /\ ~i.typehint
        /\ \/ NotProvided \in {i.request_model, i.response_model}
           \/ i.request_model = i.response_model}

\* the handlers registered in place of an earlier one
ReOnInputs ==
    {i \in HandlerOnInputs :
        <<i.request_model, i.response_model>>
            \in {<<"int", NotProvided>>, <<NotProvided, "str">>}}

\* registrations of a handler, the later ones at any time, and invocations of
\* its wrapper
NextHandler ==
    \/ \E i \in HandlerOnInputs :
          /\ handlers[<<"/", "ping">>].registered => i \in ReOnInputs
          /\ On("ping", NoNamespace, i.typehint, i.response_model, i.request_model, i.sig)
    \/ \E h \in {"h1"} : OnErrorDefault(h)
    \/ \E t \in DOMAIN tasks, c \in WrapperCalls :
          WrapperStart(t, "/", "ping", c.args, c.kwargs)
    \/ \E t \in DOMAIN tasks, out \in HandlerOutcomes : HandlerDone(t, out)
    \/ \E t \in DOMAIN tasks, out \in HookOutcomes : HookDone(t, out)

SpecHandler == Init /\ [][NextHandler]_vars

\* construction with or without documentation
InitDoc ==
    /\ validate = TRUE
    /\ generate_docs \in BOOLEAN
    /\ asyncapi_doc = DefaultDoc
    /\ emit_models = [e \in Events |-> Unset]
    /\ default_exception_handler = NoHook
    /\ handlers = [k \in ChannelIds \X Events |-> NoHandler]
    /\ call = NoCall
    /\ tasks = [t \in {1} |-> IdleTask]
    /\ emits = [e \in {1} |-> IdleEmit]

DocModels == {NoModel, "int", RecordModel}

\* handlers as on() is given them: models in the type hints, explicit models
\* next to type hints, type hints that are not used, no parameters at all
DocOnInputs ==
    {[typehint |-> TRUE, request_model |-> NoModel, response_model |-> NoModel,
      sig |-> [has_params |-> TRUE, last_ann |-> "int", return_ann |-> RecordModel,
               doc |-> <<"d">>]],
     [typehint |-> TRUE, request_model |-> "str", response_model |-> "str",
      sig |-> [has_params |-> TRUE, last_ann |-> "int", return_ann |-> RecordModel,
               doc |-> <<>>]],
     [typehint |-> FALSE, request_model |-> NoModel, response_model |-> NoModel,
      sig |-> [has_params |-> TRUE, last_ann |-> "int", return_ann |-> RecordModel,
               doc |-> <<>>]],
     [typehint |-> TRUE, request_model |-> NoModel, response_model |-> NoModel,
      sig |-> [has_params |-> TRUE, last_ann |-> "missing", return_ann |-> "missing",
               doc |-> <<" ", "d">>]],
     [typehint |-> TRUE, request_model |-> NoModel, response_model |-> NoModel,
      sig |-> [has_params |-> FALSE, last_ann |-> "missing", return_ann |-> NoModel,
               doc |-> <<>>]]}

\* registrations in any order and renderings of the document
NextDoc ==
    \/ \E e \in Events, m \in DocModels, ns \in Namespaces :
          DocEmit(e, m, ns, <<>>)
    \/ \E ns \in Namespaces, i \in DocOnInputs :
          On("ping", ns, i.typehint, i.response_model, i.request_model, i.sig)
    \/ GetYamlCall

SpecDoc == InitDoc /\ [][NextDoc]_vars


\* installing and replacing hooks while one handler and one emit declaration
\* are in use
HookEmitArgs == {<<IntV(42)>>, <<StrV(S_dsd)>>}

HookWrapperArgs == {<<StrV(<<"sid1">>), IntV(42)>>, <<StrV(<<"sid1">>), StrV(S_dsd)>>}

HookHandlerOutcomes ==
    {[raises |-> FALSE, reraise |-> FALSE, val |-> v] : v \in {IntV(42), StrV(S_dsd)}}
    \cup {[raises |-> TRUE, reraise |-> FALSE, val |-> NoneV]}

\* what the hook does here: it returns a value or raises an exception of its own
HookHookOutcomes ==
    {[raises |-> FALSE, reraise |-> FALSE, val |-> StrV(S_42)],
     [raises |-> TRUE, reraise |-> FALSE, val |-> NoneV]}

\* the handlers registered for "ping", the second in place of the first
HookOnInputs ==
    {[response_model |-> "int", request_model |-> "int"],
     [response_model |-> "str", request_model |-> "int"]}

\* validation on
InitHook ==
    /\ InitFacade
    /\ validate = TRUE
    /\ tasks = [t \in {1} |-> IdleTask]
    /\ emits = [e \in {1} |-> IdleEmit]

NextHook ==
    \/ \E h \in Hooks : OnErrorDefault(h)
    \/ \E i \in HookOnInputs :
          On("ping", NoNamespace, FALSE, i.response_model, i.request_model, NoOnInput.sig)
    \/ DocEmit("pong", "int", NoNamespace, <<>>)
    \/ \E e \in DOMAIN emits, a \in HookEmitArgs : Emit(e, "pong", a, <<>>)
    \/ \E e \in DOMAIN emits, ho \in HookHookOutcomes : EmitHookDone(e, ho)
    \/ \E e \in DOMAIN emits : EmitTransportDone(e)
    \/ \E t \in DOMAIN tasks, a \in HookWrapperArgs :
          WrapperStart(t, "/", "ping", a, AbsentV)
    \/ \E t \in DOMAIN tasks, out \in HookHandlerOutcomes : HandlerDone(t, out)
    \/ \E t \in DOMAIN tasks, out \in HookHookOutcomes : HookDone(t, out)

SpecHook == InitHook /\ [][NextHook]_vars

\* registrations of handlers of every kind, the later ones at any time, and
\* invocations of their wrappers
NextResolve ==
    \/ \E i \in OnInputs :
          On("ping", NoNamespace, i.typehint, i.response_model, i.request_model, i.sig)
    \/ OnErrorDefault("h1")
    \/ \E t \in DOMAIN tasks, a \in HookWrapperArgs :
          WrapperStart(t, "/", "ping", a, AbsentV)
    \/ \E t \in DOMAIN tasks, out \in HookHandlerOutcomes : HandlerDone(t, out)
    \/ \E t \in DOMAIN tasks, out \in HookHookOutcomes : HookDone(t, out)

SpecResolve == InitHook /\ [][NextResolve]_vars

\* two emit calls in flight at once
InitCancel ==
    /\ InitFacade
    /\ validate = TRUE
    /\ tasks = [t \in {1} |-> IdleTask]
    /\ emits = [e \in {1, 2} |-> IdleEmit]

\* one handler and one emit declaration in use, with calls that are cancelled
\* while they are suspended
NextCancel ==
    \/ \E h \in {"h1"} : OnErrorDefault(h)
    \/ On("ping", NoNamespace, FALSE, "int", "int", NoOnInput.sig)
    \/ DocEmit("pong", "int", NoNamespace, <<>>)
    \/ \E e \in DOMAIN emits, a \in HookEmitArgs : Emit(e, "pong", a, <<>>)
    \/ \E e \in DOMAIN emits, ho \in HookOutcomes : EmitHookDone(e, ho)
    \/ \E e \in DOMAIN emits : EmitTransportDone(e)
    \/ \E e \in DOMAIN emits : EmitCancelled(e)
    \/ \E t \in DOMAIN tasks, a \in HookWrapperArgs :
          WrapperStart(t, "/", "ping", a, AbsentV)
    \/ \E t \in DOMAIN tasks, out \in HookHandlerOutcomes : HandlerDone(t, out)
    \/ \E t \in DOMAIN tasks : HandlerCancelled(t)
    \/ \E t \in DOMAIN tasks, out \in HookOutcomes : HookDone(t, out)

SpecCancel == InitCancel /\ [][NextCancel]_vars

\* two invocations in flight at once, in an application that keeps no document
InitInterleave ==
    /\ validate = TRUE
    /\ generate_docs = FALSE
    /\ asyncapi_doc = DefaultDoc
    /\ emit_models = [e \in Events |-> Unset]
    /\ default_exception_handler = NoHook
    /\ handlers = [k \in ChannelIds \X Events |-> NoHandler]
    /\ call = NoCall
    /\ tasks = [t \in {1, 2} |-> IdleTask]
    /\ emits = [e \in {1} |-> IdleEmit]

\* what the transport hands to the wrappers: a session id and the data
InterleaveArgs ==
    {<<StrV(<<sid>>), v>> : sid \in {"sid1", "sid2"},
                            v \in {IntV(0), IntV(42), StrV(S_dsd)}}

\* handlers for the same event are registered under two namespaces and a hook
\* is installed, at any time; invocations interleave at the awaits of the user
\* handler and of the hook
NextInterleave ==
    \/ On("ping", NoNamespace, FALSE, "int", "str", NoOnInput.sig)
    \/ On("ping", "/ns1", FALSE, NotProvided, "int", NoOnInput.sig)
    \/ OnErrorDefault("h1")
    \/ \E t \in DOMAIN tasks, ns \in ChannelIds, a \in InterleaveArgs :
          WrapperStart(t, ns, "ping", a, AbsentV)
    \/ \E t \in DOMAIN tasks, out \in HookHandlerOutcomes : HandlerDone(t, out)
    \/ \E t \in DOMAIN tasks, out \in HookHandlerOutcomes : HookDone(t, out)

SpecInterleave == InitInterleave /\ [][NextInterleave]_vars

----------------------------------------------------------------------------
(* Properties of emit, checked under SpecEmit *)

\* the emit call was checked against the model declared for its event
EmitChecked(em) ==
    /\ em.pc # "idle"
    /\ validate
    /\ em.model # NoModel

\* ... and carried a payload that does not satisfy the model
EmitMismatch(em) ==
    /\ EmitChecked(em)
    /\ em.args # <<>>
    /\ ~TypeMatches(em.args[1], em.model)

\* ... and carried a payload that satisfies the model
EmitMatch(em) ==
    /\ EmitChecked(em)
    /\ em.args # <<>>
    /\ TypeMatches(em.args[1], em.model)

EmitError(em) == Exc("EmitValidationError", em.event, em.model)

\* a call of emit begins in the place e
EmitBegins(e) ==
    /\ emits[e].pc \in {"idle", "done"}
    /\ emits'[e] # emits[e]

\* C1: with validation on, a declared model and no hook, an emit whose payload
\* does not satisfy the model raises EmitValidationError with the event name
\* and the model, and the transport's emit is not called.
C1_EmitMismatchRaises ==
    [][\A e \in DOMAIN emits :
          (/\ EmitBegins(e)
           /\ EmitMismatch(emits'[e])
           /\ default_exception_handler = NoHook)
              => /\ emits'[e].pc = "done"
                 /\ emits'[e].outcome = "raise"
                 /\ emits'[e].exc = EmitError(emits'[e])
                 /\ emits'[e].native = <<>>
                 /\ emits'[e].hooked = <<>>]_vars

C1_Witness ==
    \E e \in DOMAIN emits :
        /\ EmitMismatch(emits[e])
        /\ default_exception_handler = NoHook
        /\ emits[e].model = RecordModel
        /\ emits[e].args[1] = DBad
        /\ emits[e].outcome = "raise"

\* what the transport is expected to receive for a payload that satisfies the model
ExpectedNativeArgs(em) ==
    IF em.model = RecordModel /\ IsRecord(em.args[1])
    THEN <<ToDict(em.args[1])>> \o Tail(em.args)
    ELSE em.args

\* C2: with validation on and a declared model the payload satisfies, the
\* transport's emit is called exactly once with the same event and remaining
\* arguments, the payload unchanged or, for a record, as its dict; the hook is
\* not called.
C2_EmitMatchDelegates ==
    \A e \in DOMAIN emits :
        EmitMatch(emits[e])
            => /\ emits[e].native = <<[event |-> emits[e].event,
                                       args |-> ExpectedNativeArgs(emits[e]),
                                       kwargs |-> emits[e].kwargs]>>
               /\ emits[e].hooked = <<>>
               /\ emits[e].pc = "done" => emits[e].outcome = "return"

\* C3: with validation off, or no model for the event (never declared, or
\* declared as None), emit calls the transport's emit with exactly its own
\* arguments and never calls the hook.
C3_UncheckedEmitDelegates ==
    \A e \in DOMAIN emits :
        (emits[e].pc # "idle" /\ (~validate \/ emits[e].model = NoModel))
            => /\ emits[e].native = <<[event |-> emits[e].event,
                                       args |-> emits[e].args,
                                       kwargs |-> emits[e].kwargs]>>
               /\ emits[e].hooked = <<>>
               /\ emits[e].pc = "done" => emits[e].outcome = "return"

C3_Witness ==
    \E e \in DOMAIN emits :
        /\ emits[e].pc = "done"
        /\ ~validate
        /\ emits[e].model = "int"
        /\ default_exception_handler # NoHook
        /\ emits[e].args # <<>>
        /\ emits[e].args[1] = StrV(S_dsd)
        /\ Len(emits[e].native) = 1

\* an emit that fails validation when a hook is installed hands its error to
\* that hook and awaits it
HookGetsEmitError ==
    \A e \in DOMAIN emits :
        (/\ EmitBegins(e)
         /\ EmitMismatch(emits'[e])
         /\ default_exception_handler # NoHook)
            => /\ emits'[e].pc = "await_hook"
               /\ emits'[e].hooked = <<[hook |-> default_exception_handler,
                                        exc |-> EmitError(emits'[e])]>>
               /\ emits'[e].native = <<>>

\* an emit whose error went to the hook
EmitHooked(em) == EmitMismatch(em) /\ em.hooked # <<>>

\* C4: when an emit fails validation and a hook is installed, the hook is
\* called exactly once with the EmitValidationError, what it returns is the
\* result of emit, and the transport's emit is not called.
C4_HookHandlesEmitMismatch ==
    /\ [][HookGetsEmitError]_vars
    /\ [](\A e \in DOMAIN emits :
             EmitHooked(emits[e])
                 => /\ Len(emits[e].hooked) = 1
                    /\ emits[e].hooked[1].exc = EmitError(emits[e])
                    /\ emits[e].native = <<>>
                    /\ (emits[e].pc = "done" /\ ~emits[e].hook_out.raises)
                          => /\ emits[e].outcome = "return"
                             /\ emits[e].result = emits[e].hook_out.val)

\* the hook was replaced while the emit awaited the one it had called, and what
\* that one returned is the result of emit
C4_Witness ==
    \E e \in DOMAIN emits :
        /\ EmitHooked(emits[e])
        /\ emits[e].hooked[1].hook = "h1"
        /\ default_exception_handler = "h2"
        /\ emits[e].pc = "done"
        /\ ~emits[e].hook_out.raises
        /\ emits[e].hook_out.val = StrV(S_42)
        /\ emits[e].result = StrV(S_42)

\* C5: when an emit fails validation and the hook itself raises, that exception
\* reaches the caller of emit (the EmitValidationError itself when the hook
\* raises it again) after the hook has been given the EmitValidationError, and
\* the transport's emit is not called.
C5_HookErrorPropagates ==
    \A e \in DOMAIN emits :
        (/\ EmitHooked(emits[e])
         /\ emits[e].pc = "done"
         /\ emits[e].hook_out.raises)
            => /\ emits[e].outcome = "raise"
               /\ emits[e].exc = (IF emits[e].hook_out.reraise THEN EmitError(emits[e])
                                  ELSE PlainExc("HookError"))
               /\ emits[e].hooked[1].exc = EmitError(emits[e])
               /\ emits[e].native = <<>>

C5_Witness ==
    \E e \in DOMAIN emits :
        /\ EmitHooked(emits[e])
        /\ emits[e].pc = "done"
        /\ emits[e].hook_out.raises
        /\ emits[e].hook_out.reraise
        /\ emits[e].exc = EmitError(emits[e])

----------------------------------------------------------------------------
(* Properties of the wrapped handler, checked under SpecHandler *)

\* the payload of an invocation: the last positional argument after the sid,
\* else the keyword argument `request`
PayloadOf(task) ==
    IF Len(task.args) > 1 THEN task.args[Len(task.args)] ELSE task.kwargs

\* what the user handler received in the place of the payload
ReceivedPayload(task) ==
    IF Len(task.args) > 1 THEN task.call_args[Len(task.call_args)] ELSE task.call_kwargs

\* the value the request model makes of a payload, if it accepts it
Coerced(model, payload) ==
    IF model = RecordModel THEN ModelParseObj(payload) ELSE Construct(model, payload)

\* Python's ==, which compares numbers by value whatever their type
IsNumber(v) == v.t \in {"int", "bool", "float"}

Tenths(v) == IF v.t = "float" THEN v.i ELSE v.i * 10

PyEq(a, b) == IF IsNumber(a) /\ IsNumber(b) THEN Tenths(a) = Tenths(b) ELSE a = b

\* an invocation with validation on, a declared request model and a payload
\* (None stands for no data)
RequestChecked(task) ==
    /\ task.pc # "idle"
    /\ validate
    /\ task.request_model \in PayloadModels
    /\ PayloadOf(task) \notin {AbsentV, NoneV}

RequestMismatch(task) ==
    RequestChecked(task) /\ ~Coerced(task.request_model, PayloadOf(task)).ok

RequestMatch(task) ==
    RequestChecked(task) /\ Coerced(task.request_model, PayloadOf(task)).ok

\* a record instance is handed to the transport as its dict
AsAck(v) == IF IsRecord(v) THEN ToDict(v) ELSE v

\* C6: with validation on and no hook installed, a payload that does not
\* conform to the request model never reaches the user handler, and the wrapper
\* returns nothing.
C6_MismatchNeverReachesHandler ==
    \A t \in DOMAIN tasks :
        (RequestMismatch(tasks[t]) /\ default_exception_handler = NoHook)
            => /\ tasks[t].handler_calls = 0
               /\ tasks[t].pc = "done"
               /\ tasks[t].outcome = "return"
               /\ tasks[t].result = NoneV

\* C7: with validation on, a payload that conforms to the request model makes
\* the user handler run exactly once, with the coerced value in the place of
\* the payload.
C7_HandlerGetsCoercedValue ==
    \A t \in DOMAIN tasks :
        RequestMatch(tasks[t])
            => /\ tasks[t].handler_calls = 1
               /\ PyEq(ReceivedPayload(tasks[t]),
                       Coerced(tasks[t].request_model, PayloadOf(tasks[t])).val)

\* C8: with validation on and a hook installed, a payload that fails coercion
\* against a record or primitive request model makes the hook run exactly once
\* with a RequestValidationError carrying the event and the model; the user
\* handler does not run and the hook's result is the wrapper's result.
C8_HookGetsRequestValidationError ==
    \A t \in DOMAIN tasks :
        (/\ RequestMismatch(tasks[t])
         /\ tasks[t].request_model \in {"int", "str", "bool", "float", RecordModel}
         /\ tasks[t].hook_at_entry # NoHook)
            => /\ tasks[t].handler_calls = 0
               /\ tasks[t].hooked =
                     <<[hook |-> tasks[t].hook_at_entry,
                        exc |-> Exc("RequestValidationError", tasks[t].event,
                                    tasks[t].request_model)]>>
               /\ (tasks[t].pc = "done" /\ ~tasks[t].hook_out.raises)
                     => /\ tasks[t].outcome = "return"
                        /\ tasks[t].result = AsAck(tasks[t].hook_out.val)

\* an invocation whose user handler returned a result (None stands for no
\* result), with validation on and a declared response model
ResponseChecked(task) ==
    /\ task.handler_returned
    /\ task.handler_out.val # NoneV
    /\ validate
    /\ task.response_model \in PayloadModels

ResponseMismatch(task) ==
    ResponseChecked(task) /\ ~TypeMatches(task.handler_out.val, task.response_model)

\* C9 as claimed: with validation on and no hook installed, every handler
\* result that does not conform to the response model makes the wrapper return
\* nothing.
C9_AnyMismatchReturnsNothing ==
    \A t \in DOMAIN tasks :
        (ResponseMismatch(tasks[t]) /\ default_exception_handler = NoHook)
            => /\ tasks[t].pc = "done"
               /\ tasks[t].outcome = "return"
               /\ tasks[t].result = NoneV

\* C9 as amended: with validation on and no hook installed, every non-empty
\* (truthy) handler result that does not conform to the response model makes
\* the wrapper return nothing.
C9_TruthyMismatchReturnsNothing ==
    \A t \in DOMAIN tasks :
        (/\ ResponseMismatch(tasks[t])
         /\ Truthy(tasks[t].handler_out.val)
         /\ default_exception_handler = NoHook)
            => /\ tasks[t].pc = "done"
               /\ tasks[t].outcome = "return"
               /\ tasks[t].result = NoneV

C9_Witness ==
    \E t \in DOMAIN tasks :
        /\ ResponseMismatch(tasks[t])
        /\ default_exception_handler = NoHook
        /\ tasks[t].response_model = RecordModel
        /\ tasks[t].handler_out.val = DOk
        /\ tasks[t].pc = "done"
        /\ tasks[t].result = NoneV

\* the hook is given the ResponseValidationError, and what it returns is the
\* acknowledgment
ResponseErrorHooked(task) ==
    /\ task.hooked = <<[hook |-> task.hook_at_resume,
                        exc |-> Exc("ResponseValidationError", task.event,
                                    task.response_model)]>>
    /\ (task.pc = "done" /\ ~task.hook_out.raises)
          => /\ task.outcome = "return"
             /\ task.result = AsAck(task.hook_out.val)

\* C10 as claimed: with validation on and a hook installed, every handler
\* result that does not conform to the response model makes the hook run with
\* a ResponseValidationError carrying the event and the model, and the
\* acknowledgment is the hook's result.
C10_AnyMismatchIsHooked ==
    \A t \in DOMAIN tasks :
        (ResponseMismatch(tasks[t]) /\ tasks[t].hook_at_resume # NoHook)
            => ResponseErrorHooked(tasks[t])

\* C10 as amended: the same for every non-empty (truthy) handler result.
C10_TruthyMismatchIsHooked ==
    \A t \in DOMAIN tasks :
        (/\ ResponseMismatch(tasks[t])
         /\ Truthy(tasks[t].handler_out.val)
         /\ tasks[t].hook_at_resume # NoHook)
            => ResponseErrorHooked(tasks[t])

C10_Witness ==
    \E t \in DOMAIN tasks :
        /\ ResponseMismatch(tasks[t])
        /\ tasks[t].hook_at_resume # NoHook
        /\ tasks[t].response_model = "int"
        /\ tasks[t].handler_out.val = StrV(S_dsd)
        /\ tasks[t].pc = "done"
        /\ tasks[t].hook_out.val = StrV(S_42)
        /\ tasks[t].result = StrV(S_42)

\* an invocation whose user handler returned a result that conforms to the
\* declared response model, with validation on
ResponseMatch(task) ==
    /\ task.handler_returned
    /\ validate
    /\ task.response_model \in PayloadModels
    /\ TypeMatches(task.handler_out.val, task.response_model)

\* C11: with validation on, a handler result that conforms to the declared
\* response model is the acknowledgment, a record instance as its dict, and the
\* hook is not called; a record instance the hook returns is acknowledged as
\* its dict too.
C11_ConformingResultIsAcknowledged ==
    \A t \in DOMAIN tasks :
        /\ ResponseMatch(tasks[t])
              => /\ tasks[t].pc = "done"
                 /\ tasks[t].outcome = "return"
                 /\ tasks[t].result = AsAck(tasks[t].handler_out.val)
                 /\ tasks[t].hooked = <<>>
        /\ (tasks[t].pc = "done" /\ tasks[t].hooked # <<>> /\ ~tasks[t].hook_out.raises)
              => tasks[t].result = AsAck(tasks[t].hook_out.val)

C11_Witness ==
    \E t \in DOMAIN tasks :
        /\ ResponseMatch(tasks[t])
        /\ tasks[t].response_model = RecordModel
        /\ tasks[t].handler_out.val = RecOk
        /\ tasks[t].pc = "done"
        /\ tasks[t].result = DOk

\* the exception raised by the validation of the request, NoExc if there is
\* none
RequestFailure(task) ==
    IF /\ RequestIsValidated(RequestOf(task.args, task.kwargs), task.request_model)
       /\ ~Coerce(task.event, task.request_model, RequestOf(task.args, task.kwargs)).ok
    THEN Coerce(task.event, task.request_model, RequestOf(task.args, task.kwargs)).exc
    ELSE NoExc

\* the exception raised by the user handler or by the validation of its result
HandlerFailure(task) ==
    IF task.handler_out.raises THEN PlainExc("HandlerError")
    ELSE IF task.handler_returned
    THEN ResponseCheck(task.event, task.response_model, task.handler_out.val)
    ELSE NoExc

\* what the catch-all makes of an exception, given the hook installed when it
\* was raised
CaughtBy(task, hook, exc) ==
    IF hook = NoHook
    THEN /\ task.pc = "done"
         /\ task.outcome = "return"
         /\ task.result = NoneV
         /\ task.hooked = <<>>
    ELSE /\ task.hooked = <<[hook |-> hook, exc |-> exc]>>
         /\ (task.pc = "done" /\ ~task.hook_out.raises)
               => /\ task.outcome = "return"
                  /\ task.result = AsAck(task.hook_out.val)

\* C18: every exception raised while the request is validated, the user
\* handler runs (its own exceptions included, and the cancellation of its
\* await) or its result is validated is caught: with a hook installed the hook
\* gets that exception and its result is the result, without a hook the
\* wrapper returns nothing; the wrapper raises only what the hook raises.
\* Stated for SpecCancel, where suspended invocations are cancelled.
C18_CatchAll ==
    \A t \in DOMAIN tasks :
        /\ (tasks[t].pc # "idle" /\ RequestFailure(tasks[t]) # NoExc)
              => /\ CaughtBy(tasks[t], tasks[t].hook_at_entry, RequestFailure(tasks[t]))
                 /\ tasks[t].handler_calls = 0
        /\ HandlerFailure(tasks[t]) # NoExc
              => CaughtBy(tasks[t], tasks[t].hook_at_resume, HandlerFailure(tasks[t]))
        /\ tasks[t].outcome = "raise"
              => tasks[t].hooked # <<>> /\ tasks[t].hook_out.raises

\* the annotation on() reads for the request and for the response, "missing"
\* if there is none
RequestAnnotation(sig) == IF sig.has_params THEN sig.last_ann ELSE "missing"

ResponseAnnotation(sig) == sig.return_ann

\* a model as C19 claims it is resolved: an explicit model stays, else with
\* get_from_typehint the annotation, the sentinel when that is missing
ClaimedModel(get_from_typehint, given, annotation) ==
    IF given # NoModel \/ ~get_from_typehint THEN given
    ELSE IF annotation = "missing" THEN NotProvided
    ELSE annotation

\* the request model as the code resolves it: a handler without positional
\* parameters gets no request model
AmendedRequestModel(i) ==
    IF i.request_model = NoModel /\ i.typehint /\ ~i.sig.has_params THEN NoModel
    ELSE ClaimedModel(i.typehint, i.request_model, RequestAnnotation(i.sig))

\* the registration observed resolved its models to rq and rs, documented them
\* and hands them to every invocation
ResolvedTo(rq, rs) ==
    /\ handlers[<<ChannelId(call.namespace), call.event>>].request_model = rq
    /\ handlers[<<ChannelId(call.namespace), call.event>>].response_model = rs
    /\ generate_docs
          => /\ asyncapi_doc.messages[Title(call.event)].payload = SchemaOf(rq)
             /\ asyncapi_doc.messages[Title(call.event)].x_ack = SchemaOf(rs)

\* an invocation validates with the models of the handler registered for its
\* namespace and event when it begins
WrapperUsesRegisteredModels ==
    \A t \in DOMAIN tasks :
        (tasks[t].pc \in {"idle", "done"} /\ tasks'[t] # tasks[t])
            => LET h == handlers[<<tasks'[t].namespace, tasks'[t].event>>]
               IN  /\ h.registered
                   /\ tasks'[t].request_model = h.request_model
                   /\ tasks'[t].response_model = h.response_model

\* C19 as claimed: a model not given explicitly is filled from the annotation
\* when get_from_typehint is true, with the sentinel when the annotation is
\* missing; an explicit model is never replaced; with get_from_typehint false
\* the models stay as given; validation and the document use the resolved
\* models.
C19_ModelsResolvedFromTypehints ==
    /\ [](call.op = "on"
            => ResolvedTo(ClaimedModel(call.on_input.typehint,
                                       call.on_input.request_model,
                                       RequestAnnotation(call.on_input.sig)),
                          ClaimedModel(call.on_input.typehint,
                                       call.on_input.response_model,
                                       ResponseAnnotation(call.on_input.sig))))
    /\ [][WrapperUsesRegisteredModels]_vars

\* C19 as amended: the same, except that the request model of a handler that
\* has no positional parameter at all stays None.
C19_ModelsResolvedUnlessNoParameter ==
    /\ [](call.op = "on"
            => ResolvedTo(AmendedRequestModel(call.on_input),
                          ClaimedModel(call.on_input.typehint,
                                       call.on_input.response_model,
                                       ResponseAnnotation(call.on_input.sig))))
    /\ [][WrapperUsesRegisteredModels]_vars

\* an explicit request model next to another annotation, in use by an invocation
C19_Witness ==
    /\ call.op = "on"
    /\ call.on_input.typehint
    /\ call.on_input.request_model = "int"
    /\ call.on_input.sig.last_ann = "str"
    /\ call.on_input.response_model = NoModel
    /\ handlers[<<"/", "ping">>].request_model = "int"
    /\ handlers[<<"/", "ping">>].response_model = NotProvided
    /\ \E t \in DOMAIN tasks : tasks[t].pc = "done" /\ tasks[t].request_model = "int"

\* the condition under which C20 says the result is validated
ResponseIsToBeChecked(task) ==
    /\ Truthy(task.handler_out.val)
    /\ validate
    /\ task.response_model \notin {NoModel, NotProvided}

\* C20: the result of the user handler is validated only when it is non-empty,
\* validation is on and a response model is declared and is not the sentinel;
\* in every other case, no declared response model included, the result is
\* handed back as it is (a record as its dict), no error arises and the hook
\* is not called.
C20_UndeclaredResponseIsNotChecked ==
    \A t \in DOMAIN tasks :
        (tasks[t].handler_returned /\ ~ResponseIsToBeChecked(tasks[t]))
            => /\ tasks[t].pc = "done"
               /\ tasks[t].outcome = "return"
               /\ tasks[t].result = AsAck(tasks[t].handler_out.val)
               /\ tasks[t].hooked = <<>>

----------------------------------------------------------------------------
(* Properties of the registrations and of the document, checked under SpecDoc *)

\* a step that declares an emit event again
DeclaredAgain == call'.op = "doc_emit" /\ call'.known

\* C12: declaring an emit event again with the model it has changes neither
\* the event->model map nor the document and raises nothing, however often it
\* is repeated.
C12_RepeatedDeclarationIsNoOp ==
    [][(DeclaredAgain /\ emit_models[call'.event] = call'.model)
          => /\ call'.outcome = "return"
             /\ emit_models' = emit_models
             /\ asyncapi_doc' = asyncapi_doc]_vars

C12_Witness ==
    /\ call.op = "doc_emit"
    /\ call.known
    /\ call.outcome = "return"
    /\ call.model = RecordModel
    /\ emit_models[call.event] = RecordModel
    /\ asyncapi_doc.channels["/"].subscribe = <<MessageRef(call.event)>>
    /\ asyncapi_doc.messages[call.event].payload = SchemaRef(RecordModel)

\* C13: declaring an emit event again with a different model, None included,
\* raises ValueError and changes neither the event->model map nor the document.
C13_DifferentModelRaisesValueError ==
    [][(DeclaredAgain /\ emit_models[call'.event] # call'.model)
          => /\ call'.outcome = "raise"
             /\ call'.exc = PlainExc("ValueError")
             /\ emit_models' = emit_models
             /\ asyncapi_doc' = asyncapi_doc]_vars

\* the outbound (subscribe) list of the channel of a namespace refers to an event
HasOutboundRef(namespace, event) ==
    /\ asyncapi_doc.channels[ChannelId(namespace)].present
    /\ \E k \in 1..Len(asyncapi_doc.channels[ChannelId(namespace)].subscribe) :
          asyncapi_doc.channels[ChannelId(namespace)].subscribe[k] = MessageRef(event)

\* C16: an emit declaration is identified by (namespace, event): after every
\* doc_emit the channel of its namespace has an outbound reference to its
\* event, also when the event was declared under another namespace before.
C16_EachNamespaceGetsItsReference ==
    call.op = "doc_emit" => HasOutboundRef(call.namespace, call.event)

----------------------------------------------------------------------------
(* Properties of the hook registration, checked under SpecEmit *)

\* C14: on_error_default with a value that is not callable, or a callable that
\* is not a coroutine function, raises ValueError and leaves the installed
\* hook, or the unset state, as it was.
C14_BadHookIsRejected ==
    [][(call'.op = "on_error_default" /\ call'.hook \in {"sync_function", "not_callable"})
          => /\ call'.outcome = "raise"
             /\ call'.exc = PlainExc("ValueError")
             /\ default_exception_handler' = default_exception_handler]_vars

C14_Witness ==
    /\ call.op = "on_error_default"
    /\ call.hook = "sync_function"
    /\ call.outcome = "raise"
    /\ default_exception_handler = "h1"

----------------------------------------------------------------------------
(* Properties of the hook's lifecycle, checked under SpecHook *)

\* the hook changes only by a call of on_error_default that returns, and then
\* to the hook that call was given
HookChangesOnlyByRegistration ==
    default_exception_handler' # default_exception_handler
        => /\ call'.op = "on_error_default"
           /\ call'.outcome = "return"
           /\ call'.hook = default_exception_handler'
           /\ default_exception_handler' # NoHook

\* a wrapped handler that turns to the hook turns to the one installed at that
\* moment
HandlerConsultsCurrentHook ==
    \A t \in DOMAIN tasks :
        (/\ tasks'[t] # tasks[t]
         /\ tasks'[t].pc = "await_hook")
            => /\ default_exception_handler # NoHook
               /\ tasks'[t].hooked[Len(tasks'[t].hooked)].hook = default_exception_handler

\* an emit that turns to the hook turns to the one installed at that moment
EmitConsultsCurrentHook ==
    \A e \in DOMAIN emits :
        (/\ emits'[e] # emits[e]
         /\ emits'[e].pc = "await_hook")
            => /\ default_exception_handler # NoHook
               /\ emits'[e].hooked = <<[hook |-> default_exception_handler,
                                        exc |-> EmitError(emits'[e])]>>

\* C17: the hook is unset until on_error_default first returns, each later call
\* that returns replaces it, no other operation changes or clears it, and every
\* failure is handed to the hook installed at the moment of the failure.
C17_HookLifecycle ==
    /\ [](/\ call.op = "none" => default_exception_handler = NoHook
          /\ (call.op = "on_error_default" /\ call.outcome = "return")
                => default_exception_handler = call.hook)
    /\ [][/\ HookChangesOnlyByRegistration
          /\ HandlerConsultsCurrentHook
          /\ EmitConsultsCurrentHook]_vars

\* a handler registered and entered before any hook was installed, whose
\* failing result went to the hook installed while the handler ran, and that
\* hook replaced since
C17_Witness ==
    \E t \in DOMAIN tasks :
        /\ tasks[t].hook_at_entry = NoHook
        /\ tasks[t].hook_at_resume = "h1"
        /\ tasks[t].hooked = <<[hook |-> "h1",
                                exc |-> Exc("ResponseValidationError", "ping", "int")]>>
        /\ default_exception_handler = "h2"
        /\ tasks[t].pc = "done"

----------------------------------------------------------------------------
(* Properties of the arguments the user handler is invoked with, checked
   under SpecHandler *)

\* an invocation whose user handler was invoked
HandlerInvoked(task) == task.handler_calls > 0

\* every positional argument but the payload reached the handler as supplied
OtherArgsUnchanged(task) ==
    /\ Len(task.call_args) = Len(task.args)
    /\ \A k \in 1..Len(task.args) :
          (k < Len(task.args) \/ Len(task.args) = 1)
              => task.call_args[k] = task.args[k]

\* the named argument reached the handler as supplied unless it is the payload
NamedArgUnchanged(task) ==
    Len(task.args) > 1 => task.call_kwargs = task.kwargs

\* the place of the payload holds the payload or its coerced value
PayloadPlaceHoldsPayload(task) ==
    \/ ReceivedPayload(task) = PayloadOf(task)
    \/ /\ task.request_model \in PayloadModels
       /\ Coerced(task.request_model, PayloadOf(task)).ok
       /\ ReceivedPayload(task) = Coerced(task.request_model, PayloadOf(task)).val

\* C21: the payload is the last extra positional argument (the named argument
\* `request` when there is none) and its coerced value is put back in that
\* place; every other positional and named argument, the session id included,
\* reaches the user handler unchanged, for any number of positional arguments.
C21_CoercedValueReplacesPayloadInPlace ==
    \A t \in DOMAIN tasks :
        HandlerInvoked(tasks[t])
            => /\ OtherArgsUnchanged(tasks[t])
               /\ NamedArgUnchanged(tasks[t])
               /\ PayloadPlaceHoldsPayload(tasks[t])

\* an invocation for which no coercion is due: validation is off, or no request
\* model is declared, or it is the sentinel
NoCoercionDue(task) ==
    /\ task.pc # "idle"
    /\ ~validate \/ task.request_model \in {NoModel, NotProvided}

\* the user handler was invoked once with the arguments as supplied
InvokedWithRawArguments(task) ==
    /\ task.handler_calls = 1
    /\ task.call_args = task.args
    /\ task.call_kwargs = task.kwargs

\* C22 as claimed: with validation off, or the request model undeclared or the
\* sentinel, the user handler is invoked exactly once with the raw arguments
\* as supplied, and the hook is invoked only if the handler raises.
C22_NoCoercionAndHookOnlyIfHandlerRaises ==
    \A t \in DOMAIN tasks :
        NoCoercionDue(tasks[t])
            => /\ InvokedWithRawArguments(tasks[t])
               /\ tasks[t].hooked # <<>> => tasks[t].handler_out.raises

\* C22 as amended: the same, but the hook is invoked only if the handler
\* raises or the check of its result fails.
C22_NoCoercionAndHookOnlyIfHandlerFails ==
    \A t \in DOMAIN tasks :
        NoCoercionDue(tasks[t])
            => /\ InvokedWithRawArguments(tasks[t])
               /\ tasks[t].hooked # <<>>
                     => \/ tasks[t].handler_out.raises
                        \/ /\ tasks[t].handler_returned
                           /\ validate
                           /\ Truthy(tasks[t].handler_out.val)
                           /\ tasks[t].response_model # NotProvided
                           /\ ~TypeMatches(tasks[t].handler_out.val,
                                           tasks[t].response_model)

\* validation is off and a payload the declared model would coerce reached the
\* handler as it came
C22_Witness ==
    \E t \in DOMAIN tasks :
        /\ ~validate
        /\ tasks[t].request_model = "int"
        /\ tasks[t].args = <<StrV(<<"sid1">>), StrV(S_42)>>
        /\ tasks[t].call_args = tasks[t].args
        /\ tasks[t].pc = "done"
        /\ tasks[t].handler_returned
        /\ tasks[t].hooked = <<>>

----------------------------------------------------------------------------
(* Properties of cancelled calls, checked under SpecCancel *)

\* what the catch-all of emit makes of an exception: the hook installed at that
\* moment gets it, without a hook it is raised again
EmitCaught(em, hook, exc) ==
    IF hook = NoHook
    THEN em.pc = "done" /\ em.outcome = "raise" /\ em.exc = exc
    ELSE em.pc = "await_hook" /\ em.hooked[Len(em.hooked)] = [hook |-> hook, exc |-> exc]

\* an emit that is cancelled has its cancellation caught
CancelledEmitIsCaught ==
    \A e \in DOMAIN emits :
        (emits'[e] # emits[e] /\ emits'[e].cancelled)
            => EmitCaught(emits'[e], default_exception_handler,
                          PlainExc("CancelledError"))

\* C23: a cancellation of the awaited user handler, or of the call an emit
\* awaits, is caught like any other exception: the hook gets it when one is
\* installed, otherwise the wrapper returns nothing and emit raises it again.
C23_CancellationIsCaught ==
    /\ [](\A t \in DOMAIN tasks :
             tasks[t].cancelled
                 => CaughtBy(tasks[t], tasks[t].hook_at_resume,
                             PlainExc("CancelledError")))
    /\ [][CancelledEmitIsCaught]_vars

----------------------------------------------------------------------------
(* Properties of the registration state, checked under SpecHook *)

\* a step of an invocation of a wrapped handler or of an emit call
RuntimeStep == tasks' # tasks \/ emits' # emits

\* C24: invocations of wrapped handlers and emit calls, whether they succeed,
\* fail or go through the hook, leave the models of the events, the installed
\* hook and the document as they are; only on, doc_emit and on_error_default
\* change them.
C24_RuntimeKeepsRegistrations ==
    [][RuntimeStep => UNCHANGED <<emit_models, handlers, default_exception_handler,
                                  asyncapi_doc, validate, generate_docs>>]_vars

\* a failed emit and a failed invocation both went through the hook, and what
\* was registered is still there
C24_Witness ==
    /\ \E e \in DOMAIN emits : emits[e].pc = "done" /\ emits[e].hooked # <<>>
    /\ \E t \in DOMAIN tasks : tasks[t].pc = "done" /\ tasks[t].hooked # <<>>
    /\ emit_models["pong"] = "int"
    /\ handlers[<<"/", "ping">>].registered
    /\ default_exception_handler = "h1"
    /\ Len(asyncapi_doc.channels["/"].publish) = 1
    /\ Len(asyncapi_doc.channels["/"].subscribe) = 1

----------------------------------------------------------------------------
(* Properties of the document under registrations, checked under SpecDoc *)

\* the step is an application of on(...)
OnStep == call'.op = "on"

\* the channels other than the one named are as they were
OtherChannelsKept(id) ==
    \A c \in ChannelIds \ {id} : asyncapi_doc'.channels[c] = asyncapi_doc.channels[c]

\* C25: with docs enabled each application of on(...) adds a message entry
\* under the title-cased event name and appends one reference to it at the end
\* of the publish list of the namespace's channel, every reference already in a
\* list staying in place; with docs disabled the document stays as it is; in
\* both cases the wrapped handler is registered.
C25_OnAppendsOneReference ==
    [][OnStep =>
          /\ handlers'[<<ChannelId(call'.namespace), call'.event>>].registered
          /\ generate_docs
                => /\ asyncapi_doc'.messages[Title(call'.event)].present
                   /\ asyncapi_doc'.channels[ChannelId(call'.namespace)].present
                   /\ asyncapi_doc'.channels[ChannelId(call'.namespace)].publish =
                         Append(asyncapi_doc.channels[ChannelId(call'.namespace)].publish,
                                MessageRef(Title(call'.event)))
                   /\ asyncapi_doc'.channels[ChannelId(call'.namespace)].subscribe =
                         asyncapi_doc.channels[ChannelId(call'.namespace)].subscribe
                   /\ OtherChannelsKept(ChannelId(call'.namespace))
          /\ ~generate_docs => asyncapi_doc' = asyncapi_doc]_vars

\* a second registration under a namespace whose channel already has references
C25_Witness ==
    /\ call.op = "on"
    /\ call.namespace = "/ns1"
    /\ generate_docs
    /\ asyncapi_doc.messages["Ping"].present
    /\ asyncapi_doc.channels["/ns1"].publish = <<MessageRef("Ping"), MessageRef("Ping")>>
    /\ Len(asyncapi_doc.channels["/ns1"].subscribe) = 1
    /\ Len(asyncapi_doc.channels["/"].publish) = 1

\* list a is the beginning of list b
IsPrefix(a, b) == Len(a) <= Len(b) /\ SubSeq(b, 1, Len(a)) = a

\* the channel of the default namespace with its disconnect marker
DefaultChannelPresent ==
    /\ asyncapi_doc.channels["/"].present
    /\ asyncapi_doc.channels["/"].x_handlers

\* an existing channel keeps its marker and what its lists hold
ChannelKept(c) ==
    /\ asyncapi_doc'.channels[c].present
    /\ asyncapi_doc'.channels[c].x_handlers = asyncapi_doc.channels[c].x_handlers
    /\ IsPrefix(asyncapi_doc.channels[c].publish, asyncapi_doc'.channels[c].publish)
    /\ IsPrefix(asyncapi_doc.channels[c].subscribe, asyncapi_doc'.channels[c].subscribe)

\* a channel that did not exist holds nothing but the reference of the
\* registration that created it
ChannelCreated(c) ==
    asyncapi_doc'.channels[c].present
        => /\ c = ChannelId(call'.namespace)
           /\ ~asyncapi_doc'.channels[c].x_handlers
           /\ Len(asyncapi_doc'.channels[c].publish)
                 + Len(asyncapi_doc'.channels[c].subscribe) = 1

\* C26: the document always has the channel "/" with the disconnect marker,
\* its lists empty right after construction; a registration under a namespace
\* without a channel creates the channel with empty lists and then appends; a
\* registration under a namespace that has a channel (no namespace meaning "/")
\* never recreates or empties it.
C26_ChannelsAreCreatedOnce ==
    /\ [](/\ DefaultChannelPresent
          /\ call.op = "none" => /\ asyncapi_doc.channels["/"].publish = <<>>
                                 /\ asyncapi_doc.channels["/"].subscribe = <<>>)
    /\ [][\A c \in ChannelIds :
             IF asyncapi_doc.channels[c].present THEN ChannelKept(c)
             ELSE ChannelCreated(c)]_vars

\* a namespace's channel was created by a registration and extended by another,
\* next to the channel "/"
C26_Witness ==
    /\ DefaultChannelPresent
    /\ Len(asyncapi_doc.channels["/"].publish) = 1
    /\ asyncapi_doc.channels["/ns1"].present
    /\ Len(asyncapi_doc.channels["/ns1"].publish) = 2
    /\ Len(asyncapi_doc.channels["/ns1"].subscribe) = 1

----------------------------------------------------------------------------
(* Properties of emit without a hook, checked under SpecEmit *)

\* C27: with validation on, a model declared for the event and no hook
\* installed, an emit call either delegates to the transport or raises
\* EmitValidationError, also when it carries no positional payload; no other
\* kind of error reaches the caller.
C27_EmitRaisesOnlyEmitValidationError ==
    [][\A e \in DOMAIN emits :
          (/\ EmitBegins(e)
           /\ EmitChecked(emits'[e])
           /\ default_exception_handler = NoHook)
              => \/ emits'[e].pc = "await_transport" /\ emits'[e].native # <<>>
                 \/ /\ emits'[e].pc = "done"
                    /\ emits'[e].outcome = "raise"
                    /\ emits'[e].exc.kind = "EmitValidationError"]_vars

----------------------------------------------------------------------------
(* Properties of the message table, checked under SpecDoc *)

\* the references of all channel lists of a document
ReferencesOf(doc) ==
    UNION {{doc.channels[c].publish[k] : k \in 1..Len(doc.channels[c].publish)}
           \cup {doc.channels[c].subscribe[k] : k \in 1..Len(doc.channels[c].subscribe)} :
              c \in ChannelIds}

\* the key of the message table a reference points to
KeyOf(ref) == ref[2]

\* every reference resolves to an entry of the message table
ReferencesResolve ==
    \A ref \in ReferencesOf(asyncapi_doc) :
        /\ KeyOf(ref) \in DOMAIN asyncapi_doc.messages
        /\ asyncapi_doc.messages[KeyOf(ref)].present

\* the step registers again a handler for an event under a namespace that has
\* one already, which replaces that handler
RegistersAgain ==
    /\ call'.op = "on"
    /\ \E k \in 1..Len(asyncapi_doc.channels[ChannelId(call'.namespace)].publish) :
          asyncapi_doc.channels[ChannelId(call'.namespace)].publish[k] =
              MessageRef(Title(call'.event))

\* the entries that references point to are as they were
ReferencedEntriesKept ==
    \A ref \in ReferencesOf(asyncapi_doc) :
        asyncapi_doc'.messages[KeyOf(ref)] = asyncapi_doc.messages[KeyOf(ref)]

\* the entry the reference of a new registration points to describes that
\* registration
NewEntryDescribesRegistration ==
    /\ (call'.op = "on" /\ generate_docs)
          => /\ asyncapi_doc'.messages[Title(call'.event)].name = call'.event
             /\ asyncapi_doc'.messages[Title(call'.event)].payload =
                   SchemaOf(handlers'[<<ChannelId(call'.namespace), call'.event>>].request_model)
             /\ asyncapi_doc'.messages[Title(call'.event)].x_ack =
                   SchemaOf(handlers'[<<ChannelId(call'.namespace), call'.event>>].response_model)
    /\ (call'.op = "doc_emit" /\ ~call'.known)
          => /\ asyncapi_doc'.messages[call'.event].name = call'.event
             /\ asyncapi_doc'.messages[call'.event].payload = SchemaOf(call'.model)

\* C28: after any sequence of on and doc_emit registrations every reference of
\* every channel list resolves to an entry of the message table that still
\* describes the registration that appended it (its event name and resolved
\* models); a later registration never replaces the entry an earlier
\* reference points to.
C28_ReferencedEntriesAreNeverReplaced ==
    /\ []ReferencesResolve
    /\ [][/\ NewEntryDescribesRegistration
          /\ ~RegistersAgain => ReferencedEntriesKept]_vars

----------------------------------------------------------------------------
(* Properties of interleaved invocations, checked under SpecInterleave *)

\* the user handler got the session id and the coerced payload of its own
\* invocation
GotOwnArguments(task) ==
    /\ HandlerInvoked(task) => task.call_args[1] = task.args[1]
    /\ RequestMatch(task)
          => /\ HandlerInvoked(task)
             /\ PyEq(ReceivedPayload(task),
                     Coerced(task.request_model, PayloadOf(task)).val)

\* what an invocation is given: the handler registered for its namespace and
\* event, its arguments, the hook installed when it begins and when its user
\* handler ends, what its user handler and the hook do
SameInputs(a, b) ==
    /\ a.namespace = b.namespace
    /\ a.event = b.event
    /\ a.request_model = b.request_model
    /\ a.response_model = b.response_model
    /\ a.hook_at_entry = b.hook_at_entry
    /\ a.hook_at_resume = b.hook_at_resume
    /\ a.args = b.args
    /\ a.kwargs = b.kwargs
    /\ a.handler_out = b.handler_out
    /\ a.hook_out = b.hook_out

\* what an invocation yields: its result or exception, and the hook calls
SameOutputs(a, b) ==
    /\ a.outcome = b.outcome
    /\ a.result = b.result
    /\ a.exc = b.exc
    /\ a.hooked = b.hooked
    /\ a.call_args = b.call_args

\* a step of one invocation leaves every other invocation as it was
StepsAreLocal ==
    \A t \in DOMAIN tasks :
        tasks'[t] # tasks[t]
            => \A u \in DOMAIN tasks \ {t} : tasks'[u] = tasks[u]

\* invocations that were given the same yield the same, however they
\* interleaved
ResultsAreOwn ==
    \A t, u \in DOMAIN tasks :
        (/\ tasks[t].pc = "done"
         /\ tasks[u].pc = "done"
         /\ SameInputs(tasks[t], tasks[u]))
            => SameOutputs(tasks[t], tasks[u])

\* the part of C29 about interference alone: steps are local and results are
\* determined by the invocation's own inputs
InvocationsAreIsolated == []ResultsAreOwn /\ [][StepsAreLocal]_vars

\* C29: invocations of wrapped handlers that interleave at their awaits do not
\* interfere: each user handler gets the coerced value of its own payload and
\* its own session id, and each invocation's result or hook call is determined
\* by its own payload and handler result only.
C29_InterleavedInvocationsGetOwnCoercedPayload ==
    /\ [](\A t \in DOMAIN tasks : GotOwnArguments(tasks[t]))
    /\ []ResultsAreOwn
    /\ [][StepsAreLocal]_vars

----------------------------------------------------------------------------
(* Properties of the hook in the wrapped handler, checked under SpecHandler *)

\* the hook ran for an invocation and raised
HookFailed(task) == task.hooked # <<>> /\ task.hook_out.raises

\* C30: for one inbound event the hook is invoked at most once; what the hook
\* raises is neither swallowed nor given to the hook again but leaves the
\* wrapper, and the user handler is not invoked once the hook has run.
C30_HookRunsOnceAndItsErrorPropagates ==
    /\ [](\A t \in DOMAIN tasks :
             /\ Len(tasks[t].hooked) <= 1
             /\ tasks[t].handler_calls <= 1
             /\ HookFailed(tasks[t])
                   => /\ tasks[t].pc = "done"
                      /\ tasks[t].outcome = "raise"
                      /\ tasks[t].exc = HookRaised(tasks[t].hook_out,
                                                   tasks[t].hooked[1].exc))
    /\ [][\A t \in DOMAIN tasks :
             (tasks[t].hooked # <<>> /\ tasks[t].pc # "done")
                 => /\ tasks'[t].handler_calls = tasks[t].handler_calls
                    /\ tasks'[t].hooked = tasks[t].hooked]_vars

\* the user handler raised, the hook got its exception and raised its own
C30_Witness ==
    \E t \in DOMAIN tasks :
        /\ tasks[t].handler_calls = 1
        /\ tasks[t].handler_out.raises
        /\ tasks[t].hooked = <<[hook |-> "h1", exc |-> PlainExc("HandlerError")]>>
        /\ tasks[t].hook_out.raises
        /\ ~tasks[t].hook_out.reraise
        /\ tasks[t].pc = "done"
        /\ tasks[t].outcome = "raise"
        /\ tasks[t].exc = PlainExc("HookError")

====
